---- MODULE Spec2Model ----
(***************************************************************************)
(* Model of the n8n resource operator's N8nWorkflow reconciler             *)
(* (internal/controller/n8nworkflow_controller.go) together with the       *)
(* remote n8n engine it talks to through internal/n8n.Client.              *)
(*                                                                         *)
(* One declared N8nWorkflow resource is reconciled against one remote      *)
(* engine.  A reconciliation pass (Reconcile) is one atomic action: the    *)
(* dispatcher never runs two passes for the same key concurrently.  The    *)
(* user, the cluster and the remote UI act between passes.                 *)
(*                                                                         *)
(* Every pass records, in history variables, the state it started from     *)
(* (pre), the remote calls and store writes it issued in order (trace),    *)
(* the in-memory object it ended with (mem) and what it returned (result). *)
(***************************************************************************)
EXTENDS Integers, Sequences, FiniteSets, TLC

VARIABLES
    exists,      \* the N8nWorkflow resource is in the cluster store
    deleting,    \* metadata.deletionTimestamp is set
    finalizer,   \* metadata.finalizers contains finalizerName
    generation,  \* metadata.generation
    spec,        \* N8nWorkflowSpec: syncPolicy, active, workflow name, nodes
    status,      \* N8nWorkflowStatus as stored in the cluster
    target,      \* the connection target in force, or Unpinned when it may
                 \* change between passes
    remote,      \* workflows held by the remote engine (a set of records)
    nextId,      \* next identifier the remote engine hands out
    pre,         \* state the last pass started from
    mem,         \* in-memory object at the end of the last pass
    trace,       \* remote calls and store writes of the last pass, in order
    result       \* what the last pass returned (ctrl.Result, error, events)

vars == <<exists, deleting, finalizer, generation, spec, status, target,
          remote, nextId, pre, mem, trace, result>>

(***************************************************************************)
(* Bounds.                                                                 *)
(***************************************************************************)
MaxId == 2
MaxGen == 2
MaxTime == 1

(***************************************************************************)
(* Program constants.                                                      *)
(***************************************************************************)
finalizerName == "n8n.slys.dev/workflow-cleanup"
defaultRequeueInterval == 300
errorRequeueInterval == 30
DefaultServicePort == 5678
DefaultServiceName == "n8n-service"
DefaultSecretKey == "api-key"
WebhookNodeType == "n8n-nodes-base.webhook"

SyncPolicyAlways == "Always"
SyncPolicyCreateOnly == "CreateOnly"
SyncPolicyManual == "Manual"

ConditionTypeReady == "Ready"
ConditionTypeSynced == "Synced"
ReasonSyncSucceeded == "SyncSucceeded"
ReasonSyncFailed == "SyncFailed"
ReasonActivationError == "ActivationError"
ReasonAPIError == "APIError"
ReasonSyncPaused == "SyncPaused"

NoId == 0
Namespace == "default"

(***************************************************************************)
(* Workflow payloads.  A node is the decoded JSON object of one node: the  *)
(* key "type" is present when the node carries a string type, "parameters" *)
(* when it carries an object of parameters, and "path" inside it when the  *)
(* path parameter is a string.                                             *)
(***************************************************************************)
NodesHook == << [type |-> WebhookNodeType, parameters |-> [path |-> "hook"]] >>
NodesPlain == << [type |-> "n8n-nodes-base.set", parameters |-> [path |-> "x"]] >>

\* Payloads a user declares; an edit in the remote UI swaps one for the other.
DeclaredNodes == {NodesHook, NodesPlain}
WorkflowName == "wf"
OtherName == "other"

\* n8n.Workflow, as returned by the remote engine; NoWf is the nil pointer.
NoWf == [id |-> NoId, name |-> "", active |-> FALSE, nodes |-> <<>>]

(***************************************************************************)
(* Addresses and error messages.  A base URL is the pair of its host       *)
(* labels and its port, the empty string being EmptyURL; an error message  *)
(* is the sequence of its words, so that strings.Contains is a search for  *)
(* a run of words.                                                         *)
(***************************************************************************)
EmptyURL == [host |-> <<>>, port |-> 0]
ExplicitURL == [host |-> <<"n8n", "example", "com">>, port |-> 443]
DefaultURL == [host |-> <<"n8n", "default">>, port |-> 5678]

MsgNotFound == <<"Not", "Found">>
MsgLowerNotFound == <<"workflow", "not", "found">>
MsgServerError == <<"Internal", "Server", "Error">>

Contains(msg, pat) ==
    \E i \in 1..(Len(msg) - Len(pat) + 1) : SubSeq(msg, i, i + Len(pat) - 1) = pat

(***************************************************************************)
(* Target resolution: getN8nClient.                                        *)
(*                                                                         *)
(* target.ref       spec.n8nRef is set                                     *)
(* target.url       n8nRef.url ("" is EmptyURL)                            *)
(* target.name, .namespace, .port   the service reference                  *)
(* target.secretRef n8nRef.secretRef is set; target.secretKey its key      *)
(* target.secretExists  the referenced Secret is in the store             *)
(* target.secretKeys    the keys of its data, each holding secretValue     *)
(* target.defURL, .defKey   DefaultN8nURL, DefaultN8nAPIKey                *)
(* target.envURL, .envKey   N8N_API_URL, N8N_API_KEY                       *)
(***************************************************************************)
ServiceURL(name, namespace, port) ==
    [host |-> <<name, namespace, "svc", "cluster", "local">>, port |-> port]

\* A resolver that prefers the service reference to the explicit URL.
getN8nClientServiceFirst(t) ==
    LET namespace == IF t.namespace = "" THEN Namespace ELSE t.namespace
        name == IF t.name = "" THEN DefaultServiceName ELSE t.name
        port == IF t.port = 0 THEN DefaultServicePort ELSE t.port
        refURL == IF ~t.ref THEN EmptyURL
                  ELSE IF t.name # "" THEN ServiceURL(name, namespace, port)
                  ELSE IF t.url # EmptyURL THEN t.url
                  ELSE ServiceURL(name, namespace, port)
        useSecret == t.ref /\ t.secretRef
        key == IF t.secretKey = "" THEN DefaultSecretKey ELSE t.secretKey
        secretErr == useSecret /\ (~t.secretExists \/ key \notin t.secretKeys)
        refKey == IF useSecret /\ ~secretErr THEN t.secretValue ELSE ""
        url1 == IF refURL # EmptyURL THEN refURL ELSE t.defURL
        baseURL == IF url1 # EmptyURL THEN url1 ELSE t.envURL
        key1 == IF refKey # "" THEN refKey ELSE t.defKey
        apiKey == IF key1 # "" THEN key1 ELSE t.envKey
    IN  IF secretErr THEN [ok |-> FALSE, baseURL |-> EmptyURL, apiKey |-> ""]
        ELSE IF baseURL = EmptyURL THEN [ok |-> FALSE, baseURL |-> EmptyURL, apiKey |-> ""]
        ELSE IF apiKey = "" THEN [ok |-> FALSE, baseURL |-> EmptyURL, apiKey |-> ""]
        ELSE [ok |-> TRUE, baseURL |-> baseURL, apiKey |-> apiKey]

\* A resolver that treats an n8nRef without URL and service fields as absent.
getN8nClientEmptyRefAsAbsent(t) ==
    LET namespace == IF t.namespace = "" THEN Namespace ELSE t.namespace
        name == IF t.name = "" THEN DefaultServiceName ELSE t.name
        port == IF t.port = 0 THEN DefaultServicePort ELSE t.port
        refURL == IF ~t.ref THEN EmptyURL
                  ELSE IF t.url # EmptyURL THEN t.url
                  ELSE IF t.name = "" /\ t.namespace = "" /\ t.port = 0 THEN EmptyURL
                  ELSE ServiceURL(name, namespace, port)
        useSecret == t.ref /\ t.secretRef
        key == IF t.secretKey = "" THEN DefaultSecretKey ELSE t.secretKey
        secretErr == useSecret /\ (~t.secretExists \/ key \notin t.secretKeys)
        refKey == IF useSecret /\ ~secretErr THEN t.secretValue ELSE ""
        url1 == IF refURL # EmptyURL THEN refURL ELSE t.defURL
        baseURL == IF url1 # EmptyURL THEN url1 ELSE t.envURL
        key1 == IF refKey # "" THEN refKey ELSE t.defKey
        apiKey == IF key1 # "" THEN key1 ELSE t.envKey
    IN  IF secretErr THEN [ok |-> FALSE, baseURL |-> EmptyURL, apiKey |-> ""]
        ELSE IF baseURL = EmptyURL THEN [ok |-> FALSE, baseURL |-> EmptyURL, apiKey |-> ""]
        ELSE IF apiKey = "" THEN [ok |-> FALSE, baseURL |-> EmptyURL, apiKey |-> ""]
        ELSE [ok |-> TRUE, baseURL |-> baseURL, apiKey |-> apiKey]

\* A resolver that goes on to the process-wide credential when the Secret
\* cannot be read or lacks the key.
getN8nClientSecretFallback(t) ==
    LET namespace == IF t.namespace = "" THEN Namespace ELSE t.namespace
        name == IF t.name = "" THEN DefaultServiceName ELSE t.name
        port == IF t.port = 0 THEN DefaultServicePort ELSE t.port
        refURL == IF ~t.ref THEN EmptyURL
                  ELSE IF t.url # EmptyURL THEN t.url
                  ELSE ServiceURL(name, namespace, port)
        useSecret == t.ref /\ t.secretRef
        key == IF t.secretKey = "" THEN DefaultSecretKey ELSE t.secretKey
        secretErr == useSecret /\ (~t.secretExists \/ key \notin t.secretKeys)
        refKey == IF useSecret /\ ~secretErr THEN t.secretValue ELSE ""
        url1 == IF refURL # EmptyURL THEN refURL ELSE t.defURL
        baseURL == IF url1 # EmptyURL THEN url1 ELSE t.envURL
        key1 == IF refKey # "" THEN refKey ELSE t.defKey
        apiKey == IF key1 # "" THEN key1 ELSE t.envKey
    IN  IF baseURL = EmptyURL THEN [ok |-> FALSE, baseURL |-> EmptyURL, apiKey |-> ""]
        ELSE IF apiKey = "" THEN [ok |-> FALSE, baseURL |-> EmptyURL, apiKey |-> ""]
        ELSE [ok |-> TRUE, baseURL |-> baseURL, apiKey |-> apiKey]

getN8nClient(t) ==
    LET namespace == IF t.namespace = "" THEN Namespace ELSE t.namespace
        name == IF t.name = "" THEN DefaultServiceName ELSE t.name
        port == IF t.port = 0 THEN DefaultServicePort ELSE t.port
        refURL == IF ~t.ref THEN EmptyURL
                  ELSE IF t.url # EmptyURL THEN t.url
                  ELSE ServiceURL(name, namespace, port)
        useSecret == t.ref /\ t.secretRef
        key == IF t.secretKey = "" THEN DefaultSecretKey ELSE t.secretKey
        secretErr == useSecret /\ (~t.secretExists \/ key \notin t.secretKeys)
        refKey == IF useSecret /\ ~secretErr THEN t.secretValue ELSE ""
        url1 == IF refURL # EmptyURL THEN refURL ELSE t.defURL
        baseURL == IF url1 # EmptyURL THEN url1 ELSE t.envURL
        key1 == IF refKey # "" THEN refKey ELSE t.defKey
        apiKey == IF key1 # "" THEN key1 ELSE t.envKey
    IN  IF secretErr THEN [ok |-> FALSE, baseURL |-> EmptyURL, apiKey |-> ""]
        ELSE IF baseURL = EmptyURL THEN [ok |-> FALSE, baseURL |-> EmptyURL, apiKey |-> ""]
        ELSE IF apiKey = "" THEN [ok |-> FALSE, baseURL |-> EmptyURL, apiKey |-> ""]
        ELSE [ok |-> TRUE, baseURL |-> baseURL, apiKey |-> apiKey]

\* Connection targets the model draws from.
TargetDefaults ==
    [ref |-> FALSE, url |-> EmptyURL, name |-> "", namespace |-> "", port |-> 0,
     secretRef |-> FALSE, secretKey |-> "", secretExists |-> FALSE,
     secretKeys |-> {}, secretValue |-> "",
     defURL |-> DefaultURL, defKey |-> "dk", envURL |-> EmptyURL, envKey |-> ""]
TargetExplicit ==
    [TargetDefaults EXCEPT !.ref = TRUE, !.url = ExplicitURL, !.secretRef = TRUE,
                           !.secretExists = TRUE, !.secretKeys = {"api-key"},
                           !.secretValue = "sk",
                           !.defURL = EmptyURL, !.defKey = ""]
TargetSecretMissing ==
    [TargetExplicit EXCEPT !.secretExists = FALSE, !.secretKeys = {}]
TargetNothing == [TargetDefaults EXCEPT !.defURL = EmptyURL, !.defKey = ""]

\* The connection target (spec.n8nRef, the Secret it names and the
\* reconciler's defaults) is read afresh by every pass and changes between
\* passes independently of the rest.
Targets == {TargetDefaults, TargetExplicit, TargetSecretMissing, TargetNothing}
\* Passes of the state machine find the Secret of an explicit target in
\* place or gone, unless the behaviour keeps one target in force.
PassTargets == {TargetExplicit, TargetSecretMissing}
Unpinned == [TargetNothing EXCEPT !.name = "*"]
TargetsOf(t) == IF t = Unpinned THEN PassTargets ELSE {t}

(***************************************************************************)
(* The remote engine and internal/n8n.Client.                              *)
(*                                                                         *)
(* remote is the set of workflows the engine holds, at most one per id.    *)
(* Each client operation takes the engine state and the set `fails` of     *)
(* operations whose HTTP request fails in this pass (timeout, 5xx), and    *)
(* returns [ok, wf, msg, remote]: the decoded workflow, the error message  *)
(* and the engine state after the call.                                    *)
(***************************************************************************)
Ops == {"get", "list", "create", "update", "activate", "deactivate", "delete"}

Ids(rem) == {w.id : w \in rem}
Lookup(rem, id) == CHOOSE w \in rem : w.id = id

Reply(ok, wf, msg, rem) == [ok |-> ok, wf |-> wf, msg |-> msg, remote |-> rem]

\* The drained list, in the engine's order (ascending identifier).
RECURSIVE ListFrom(_, _)
ListFrom(rem, id) ==
    IF id > MaxId + 1 THEN <<>>
    ELSE IF id \in Ids(rem) THEN <<Lookup(rem, id)>> \o ListFrom(rem, id + 1)
    ELSE ListFrom(rem, id + 1)

ListWorkflows(rem, fails) ==
    IF "list" \in fails
    THEN [ok |-> FALSE, list |-> <<>>, msg |-> <<"failed", "to", "list", "workflows">> \o MsgServerError]
    ELSE [ok |-> TRUE, list |-> ListFrom(rem, 1), msg |-> <<>>]

GetWorkflow(rem, id, fails) ==
    IF "get" \in fails
    THEN Reply(FALSE, NoWf, <<"failed", "to", "get", "workflow">> \o MsgServerError, rem)
    ELSE IF id \notin Ids(rem)
    THEN Reply(FALSE, NoWf, <<"failed", "to", "get", "workflow">> \o MsgNotFound, rem)
    ELSE Reply(TRUE, Lookup(rem, id), <<>>, rem)

\* First workflow of the list with the name; nil, nil when there is none.
\* A lookup that takes the first workflow listed, whatever its name.
GetWorkflowByNameFirstListed(rem, name, fails) ==
    LET l == ListWorkflows(rem, fails)
    IN  IF ~l.ok THEN Reply(FALSE, NoWf, l.msg, rem)
        ELSE IF Len(l.list) = 0 THEN Reply(TRUE, NoWf, <<>>, rem)
        ELSE Reply(TRUE, l.list[1], <<>>, rem)

\* A lookup that only considers the active workflows.
GetWorkflowByNameActiveOnly(rem, name, fails) ==
    LET l == ListWorkflows(rem, fails)
        hits == {i \in 1..Len(l.list) : l.list[i].name = name /\ l.list[i].active}
    IN  IF ~l.ok THEN Reply(FALSE, NoWf, l.msg, rem)
        ELSE IF hits = {} THEN Reply(TRUE, NoWf, <<>>, rem)
        ELSE Reply(TRUE, l.list[CHOOSE i \in hits : \A j \in hits : i <= j], <<>>, rem)

\* A lookup that keeps scanning and returns the last match.
GetWorkflowByNameLastMatch(rem, name, fails) ==
    LET l == ListWorkflows(rem, fails)
        hits == {i \in 1..Len(l.list) : l.list[i].name = name}
    IN  IF ~l.ok THEN Reply(FALSE, NoWf, l.msg, rem)
        ELSE IF hits = {} THEN Reply(TRUE, NoWf, <<>>, rem)
        ELSE Reply(TRUE, l.list[CHOOSE i \in hits : \A j \in hits : i >= j], <<>>, rem)

GetWorkflowByName(rem, name, fails) ==
    LET l == ListWorkflows(rem, fails)
        hits == {i \in 1..Len(l.list) : l.list[i].name = name}
    IN  IF ~l.ok THEN Reply(FALSE, NoWf, l.msg, rem)
        ELSE IF hits = {} THEN Reply(TRUE, NoWf, <<>>, rem)
        ELSE Reply(TRUE, l.list[CHOOSE i \in hits : \A j \in hits : i <= j], <<>>, rem)

\* A request body that carries the activation as well.
WorkflowCreateRequestWithActive(wf) ==
    [name |-> wf.name, nodes |-> wf.nodes, active |-> wf.active]

\* WorkflowCreateRequest: the fields of a workflow sent on create and update.
WorkflowCreateRequest(wf) == [name |-> wf.name, nodes |-> wf.nodes]

\* The engine creates a workflow inactive, under a fresh identifier.
CreateWorkflow(rem, nid, wf, fails) ==
    LET req == WorkflowCreateRequest(wf)
        created == [id |-> nid, name |-> req.name, active |-> FALSE, nodes |-> req.nodes]
    IN  IF "create" \in fails
        THEN Reply(FALSE, NoWf, <<"failed", "to", "create", "workflow">> \o MsgServerError, rem)
        ELSE Reply(TRUE, created, <<>>, rem \cup {created})

\* The engine replaces name and content and keeps the activation.
UpdateWorkflow(rem, id, wf, fails) ==
    LET req == WorkflowCreateRequest(wf)
        old == Lookup(rem, id)
        updated == [id |-> id, name |-> req.name, active |-> old.active, nodes |-> req.nodes]
    IN  IF "update" \in fails
        THEN Reply(FALSE, NoWf, <<"failed", "to", "update", "workflow">> \o MsgServerError, rem)
        ELSE IF id \notin Ids(rem)
        THEN Reply(FALSE, NoWf, <<"failed", "to", "update", "workflow">> \o MsgNotFound, rem)
        ELSE Reply(TRUE, updated, <<>>, (rem \ {old}) \cup {updated})

SetActive(rem, id, active, op, fails) ==
    LET old == Lookup(rem, id)
        new == [old EXCEPT !.active = active]
    IN  IF op \in fails
        THEN Reply(FALSE, NoWf, <<"failed", "to", op, "workflow">> \o MsgServerError, rem)
        ELSE IF id \notin Ids(rem)
        THEN Reply(FALSE, NoWf, <<"failed", "to", op, "workflow">> \o MsgNotFound, rem)
        ELSE Reply(TRUE, new, <<>>, (rem \ {old}) \cup {new})

ActivateWorkflow(rem, id, fails) == SetActive(rem, id, TRUE, "activate", fails)
DeactivateWorkflow(rem, id, fails) == SetActive(rem, id, FALSE, "deactivate", fails)

\* failMsg is the message of the error response when the request fails.
DeleteWorkflow(rem, id, fails, failMsg) ==
    IF "delete" \in fails
    THEN Reply(FALSE, NoWf, <<"failed", "to", "delete", "workflow">> \o failMsg, rem)
    ELSE IF id \notin Ids(rem)
    THEN Reply(FALSE, NoWf, <<"failed", "to", "delete", "workflow">> \o MsgNotFound, rem)
    ELSE Reply(TRUE, NoWf, <<>>, rem \ {Lookup(rem, id)})

(***************************************************************************)
(* Status, conditions, events and the record of a pass.                    *)
(***************************************************************************)
NoCond == [status |-> "", reason |-> ""]
NoURL == <<>>
NoTime == 0

\* The zero N8nWorkflowStatus.
EmptyStatus ==
    [workflowId |-> NoId, active |-> FALSE, lastSyncTime |-> NoTime,
     webhookUrl |-> NoURL, observedGeneration |-> 0,
     conditions |-> [Ready |-> NoCond, Synced |-> NoCond]]

\* setCondition: meta.SetStatusCondition upserts the condition of this type
\* (status and reason; message and timestamps are not modelled).
setCondition(st, conditionType, condStatus, reason, gen) ==
    [st EXCEPT !.conditions[conditionType] = [status |-> condStatus, reason |-> reason]]

NoReq == [name |-> "", nodes |-> <<>>]
Call(op, id, req, r) ==
    [op |-> op, id |-> id, req |-> req, ok |-> r.ok, wf |-> r.wf, msg |-> r.msg]
Event(type, reason) == [type |-> type, reason |-> reason]

\* What a handler hands back: the in-memory object, the engine state, the
\* calls issued, the events recorded, the returned (Result, error) and the
\* store write it ends with ("status": its failure is only logged;
\* "statusFatal" and "update": its failure is returned).
Outcome(st, fin, rem, nid, calls, events, err, requeue, requeueAfter, write) ==
    [status |-> st, finalizer |-> fin, remote |-> rem, nextId |-> nid,
     calls |-> calls, events |-> events, err |-> err, requeue |-> requeue,
     requeueAfter |-> requeueAfter, write |-> write]

(***************************************************************************)
(* convertToN8nWorkflow, needsUpdate, extractWebhookURL.                   *)
(***************************************************************************)
convertToN8nWorkflow(sp) ==
    [id |-> NoId, name |-> sp.name, active |-> sp.active, nodes |-> sp.nodes]

\* A comparison that looks at the name only.
needsUpdateByName(existing, desired) == existing.name # desired.name

needsUpdate(existing, desired) == TRUE

HasStringType(node) == "type" \in DOMAIN node
HasParameters(node) == "parameters" \in DOMAIN node
HasStringPath(node) == HasParameters(node) /\ "path" \in DOMAIN node.parameters

\* A scan that gives up at the first webhook node.
RECURSIVE extractFromFirstHookOnly(_, _)
extractFromFirstHookOnly(nodes, i) ==
    IF i > Len(nodes) THEN NoURL
    ELSE IF ~HasStringType(nodes[i]) THEN extractFromFirstHookOnly(nodes, i + 1)
    ELSE IF nodes[i].type # WebhookNodeType THEN extractFromFirstHookOnly(nodes, i + 1)
    ELSE IF HasStringPath(nodes[i]) THEN <<"/webhook/", nodes[i].parameters.path>>
    ELSE NoURL

RECURSIVE extractFrom(_, _)
extractFrom(nodes, i) ==
    IF i > Len(nodes) THEN NoURL
    ELSE IF ~HasStringType(nodes[i]) THEN extractFrom(nodes, i + 1)
    ELSE IF nodes[i].type # WebhookNodeType THEN extractFrom(nodes, i + 1)
    ELSE IF ~HasParameters(nodes[i]) THEN extractFrom(nodes, i + 1)
    ELSE IF HasStringPath(nodes[i]) THEN <<"/webhook/", nodes[i].parameters.path>>
    ELSE extractFrom(nodes, i + 1)

extractWebhookURL(wf) ==
    IF wf = NoWf \/ Len(wf.nodes) = 0 THEN NoURL ELSE extractFrom(wf.nodes, 1)

\* A policy reading that treats CreateOnly as Always.
EffectivePolicyCreateOnlyIgnored(p) ==
    IF p = "" \/ p = SyncPolicyCreateOnly THEN SyncPolicyAlways ELSE p

\* A policy reading that treats Manual as Always.
EffectivePolicyManualIgnored(p) ==
    IF p = "" \/ p = SyncPolicyManual THEN SyncPolicyAlways ELSE p

\* Effective sync policy: the empty policy is Always.
EffectivePolicy(p) == IF p = "" THEN SyncPolicyAlways ELSE p

(***************************************************************************)
(* reconcileWorkflow, from the activation step to the end.                 *)
(* st is the in-memory status (workflowId already set), existing the       *)
(* counterpart obtained so far in this pass.                               *)
(***************************************************************************)
\* An ending that sets Ready and leaves Synced alone.
FinalizeSuccessReadyOnly(st, sp, gen, clock, rem, nid, calls, events, existing) ==
    LET st1 == [st EXCEPT !.webhookUrl = extractWebhookURL(existing),
                          !.lastSyncTime = clock,
                          !.observedGeneration = gen]
        st2 == setCondition(st1, ConditionTypeReady, "True", ReasonSyncSucceeded, gen)
    IN  Outcome(st2, TRUE, rem, nid, calls, events, FALSE, FALSE,
                defaultRequeueInterval, "statusFatal")

FinalizeSuccess(st, sp, gen, clock, rem, nid, calls, events, existing) ==
    LET st1 == [st EXCEPT !.webhookUrl = extractWebhookURL(existing),
                          !.lastSyncTime = clock,
                          !.observedGeneration = gen]
        st2 == setCondition(st1, ConditionTypeReady, "True", ReasonSyncSucceeded, gen)
        st3 == setCondition(st2, ConditionTypeSynced, "True", ReasonSyncSucceeded, gen)
    IN  Outcome(st3, TRUE, rem, nid, calls, events, FALSE, FALSE,
                defaultRequeueInterval, "statusFatal")

\* The conditions of the activation step: which call, if any, to issue.
\* A decision that activates whenever activation is desired.
ActivationDecisionDesiredOnly(specActive, existingActive) ==
    IF specActive THEN "activate"
    ELSE IF existingActive THEN "deactivate"
    ELSE "none"

\* A decision that never activates.
ActivationDecisionNeverActivate(specActive, existingActive) ==
    IF ~specActive /\ existingActive THEN "deactivate" ELSE "none"

ActivationDecision(specActive, existingActive) ==
    IF specActive /\ ~existingActive THEN "activate"
    ELSE IF ~specActive /\ existingActive THEN "deactivate"
    ELSE "none"

\* A failure exit that forgets the identifier of the counterpart.
activationFailedIdDropped(st, rem, nid, calls, events, gen) ==
    Outcome(setCondition([st EXCEPT !.workflowId = NoId],
                         ConditionTypeReady, "False", ReasonActivationError, gen),
            TRUE, rem, nid, calls, events, TRUE, FALSE, errorRequeueInterval, "status")

\* ActivateWorkflow or DeactivateWorkflow failed: Ready=False with reason
\* ActivationError, a warning event, Status().Update, return the error with
\* RequeueAfter errorRequeueInterval.
activationFailed(st, rem, nid, calls, events, gen) ==
    Outcome(setCondition(st, ConditionTypeReady, "False", ReasonActivationError, gen),
            TRUE, rem, nid, calls, events, TRUE, FALSE, errorRequeueInterval, "status")

\* An activation read from the cached status.
existingWorkflowActiveCached(st, existing) == st.active

\* existingWorkflow.Active, the activation the step compares spec.active
\* with: that of the counterpart obtained in this pass.
existingWorkflowActive(st, existing) == existing.active

ActivationStep(st, sp, gen, clock, rem, nid, calls, events, existing, fails) ==
    IF ActivationDecision(sp.active, existingWorkflowActive(st, existing)) = "activate" THEN
        LET r == ActivateWorkflow(rem, st.workflowId, fails)
            calls1 == Append(calls, Call("activate", st.workflowId, NoReq, r))
        IN  IF ~r.ok
            THEN activationFailed(st, r.remote, nid, calls1,
                                  Append(events, Event("Warning", "ActivationFailed")), gen)
            ELSE FinalizeSuccess([st EXCEPT !.active = TRUE], sp, gen, clock, r.remote, nid,
                                 calls1, Append(events, Event("Normal", "Activated")), r.wf)
    ELSE IF ActivationDecision(sp.active, existingWorkflowActive(st, existing)) = "deactivate" THEN
        LET r == DeactivateWorkflow(rem, st.workflowId, fails)
            calls1 == Append(calls, Call("deactivate", st.workflowId, NoReq, r))
        IN  IF ~r.ok
            THEN activationFailed(st, r.remote, nid, calls1,
                                  Append(events, Event("Warning", "DeactivationFailed")), gen)
            ELSE FinalizeSuccess([st EXCEPT !.active = FALSE], sp, gen, clock, r.remote, nid,
                                 calls1, Append(events, Event("Normal", "Deactivated")), r.wf)
    ELSE FinalizeSuccess([st EXCEPT !.active = existing.active], sp, gen, clock, rem, nid,
                         calls, events, existing)

(***************************************************************************)
(* reconcileWorkflow: policy gate, counterpart resolution, create or       *)
(* update, then the activation step.                                       *)
(***************************************************************************)
\* A failure exit that asks for the steady-state interval.
syncFailedSlowRetry(st, rem, nid, calls, events, gen) ==
    Outcome(setCondition(st, ConditionTypeReady, "False", ReasonSyncFailed, gen),
            TRUE, rem, nid, calls, events, TRUE, FALSE, defaultRequeueInterval, "status")

\* CreateWorkflow or UpdateWorkflow failed: Ready=False with reason
\* SyncFailed, a warning event, Status().Update, return the error with
\* RequeueAfter errorRequeueInterval.
\* A failure exit that also takes the Synced condition back.
syncFailedClearsSynced(st, rem, nid, calls, events, gen) ==
    Outcome(setCondition(setCondition(st, ConditionTypeReady, "False", ReasonSyncFailed, gen),
                         ConditionTypeSynced, "False", ReasonSyncFailed, gen),
            TRUE, rem, nid, calls, events, TRUE, FALSE, errorRequeueInterval, "status")

syncFailed(st, rem, nid, calls, events, gen) ==
    Outcome(setCondition(st, ConditionTypeReady, "False", ReasonSyncFailed, gen),
            TRUE, rem, nid, calls, events, TRUE, FALSE, errorRequeueInterval, "status")

\* A create-or-update step that leaves an existing counterpart alone under
\* CreateOnly, its activation included.
CreateOrUpdateStepCreateOnlyHandsOff(st, sp, gen, clock, rem, nid, calls, existing, fails) ==
    LET syncPolicy == EffectivePolicy(sp.syncPolicy)
        desired == convertToN8nWorkflow(sp)
    IN  IF existing = NoWf THEN
            LET r == CreateWorkflow(rem, nid, desired, fails)
                calls1 == Append(calls, Call("create", NoId, WorkflowCreateRequest(desired), r))
            IN  IF ~r.ok
                THEN syncFailed(st, r.remote, nid, calls1,
                                <<Event("Warning", "CreateFailed")>>, gen)
                ELSE ActivationStep([st EXCEPT !.workflowId = r.wf.id], sp, gen, clock,
                                    r.remote, nid + 1, calls1, <<Event("Normal", "Created")>>,
                                    r.wf, fails)
        ELSE
            LET st1 == [st EXCEPT !.workflowId = existing.id]
            IN  IF syncPolicy = SyncPolicyCreateOnly
                THEN FinalizeSuccess([st1 EXCEPT !.active = existing.active], sp, gen, clock,
                                     rem, nid, calls, <<>>, existing)
                ELSE LET r == UpdateWorkflow(rem, existing.id, desired, fails)
                         calls1 == Append(calls, Call("update", existing.id,
                                                      WorkflowCreateRequest(desired), r))
                     IN  IF ~r.ok
                         THEN syncFailed(st1, r.remote, nid, calls1,
                                         <<Event("Warning", "UpdateFailed")>>, gen)
                         ELSE ActivationStep(st1, sp, gen, clock, r.remote, nid, calls1,
                                             <<Event("Normal", "Updated")>>, r.wf, fails)

CreateOrUpdateStep(st, sp, gen, clock, rem, nid, calls, existing, fails) ==
    LET syncPolicy == EffectivePolicy(sp.syncPolicy)
        desired == convertToN8nWorkflow(sp)
    IN  IF existing = NoWf THEN
            LET r == CreateWorkflow(rem, nid, desired, fails)
                calls1 == Append(calls, Call("create", NoId, WorkflowCreateRequest(desired), r))
            IN  IF ~r.ok
                THEN syncFailed(st, r.remote, nid, calls1,
                                <<Event("Warning", "CreateFailed")>>, gen)
                ELSE ActivationStep([st EXCEPT !.workflowId = r.wf.id], sp, gen, clock,
                                    r.remote, nid + 1, calls1, <<Event("Normal", "Created")>>,
                                    r.wf, fails)
        ELSE
            LET st1 == [st EXCEPT !.workflowId = existing.id]
            IN  IF syncPolicy = SyncPolicyCreateOnly
                THEN ActivationStep(st1, sp, gen, clock, rem, nid, calls, <<>>, existing, fails)
                ELSE IF needsUpdate(existing, desired) THEN
                    LET r == UpdateWorkflow(rem, existing.id, desired, fails)
                        calls1 == Append(calls, Call("update", existing.id,
                                                     WorkflowCreateRequest(desired), r))
                    IN  IF ~r.ok
                        THEN syncFailed(st1, r.remote, nid, calls1,
                                        <<Event("Warning", "UpdateFailed")>>, gen)
                        ELSE ActivationStep(st1, sp, gen, clock, r.remote, nid, calls1,
                                            <<Event("Normal", "Updated")>>, r.wf, fails)
                ELSE ActivationStep(st1, sp, gen, clock, rem, nid, calls, <<>>, existing, fails)

\* A failed search that is returned without touching the Ready condition.
searchFailedUnreported(st, rem, nid, calls, gen) ==
    Outcome(st, TRUE, rem, nid, calls, <<>>, TRUE, FALSE, errorRequeueInterval, "status")

\* GetWorkflowByName failed: Ready=False with reason APIError,
\* Status().Update, return the error with RequeueAfter errorRequeueInterval.
searchFailed(st, rem, nid, calls, gen) ==
    Outcome(setCondition(st, ConditionTypeReady, "False", ReasonAPIError, gen),
            TRUE, rem, nid, calls, <<>>, TRUE, FALSE, errorRequeueInterval, "status")

\* A lookup that gives up when get-by-id fails instead of falling back to
\* find-by-name.
reconcileWorkflowNoFallback(st, sp, gen, clock, rem, nid, fails) ==
    LET syncPolicy == EffectivePolicy(sp.syncPolicy)
        hasId == st.workflowId # NoId
        byId == GetWorkflow(rem, st.workflowId, fails)
        calls1 == IF hasId THEN <<Call("get", st.workflowId, NoReq, byId)>> ELSE <<>>
        byName == GetWorkflowByName(rem, sp.name, fails)
        calls2 == IF hasId THEN calls1 ELSE <<Call("list", NoId, NoReq, byName)>>
        existing2 == IF hasId THEN byId.wf ELSE byName.wf
    IN  IF syncPolicy = SyncPolicyManual
        THEN Outcome(setCondition(st, ConditionTypeReady, "True", ReasonSyncPaused, gen),
                     TRUE, rem, nid, <<>>, <<>>, FALSE, FALSE, defaultRequeueInterval, "status")
        ELSE IF (hasId /\ ~byId.ok) \/ (~hasId /\ ~byName.ok)
        THEN searchFailed(st, rem, nid, calls2, gen)
        ELSE CreateOrUpdateStep(st, sp, gen, clock, rem, nid, calls2, existing2, fails)

reconcileWorkflow(st, sp, gen, clock, rem, nid, fails) ==
    LET syncPolicy == EffectivePolicy(sp.syncPolicy)
        hasId == st.workflowId # NoId
        byId == GetWorkflow(rem, st.workflowId, fails)
        calls1 == IF hasId THEN <<Call("get", st.workflowId, NoReq, byId)>> ELSE <<>>
        existing1 == IF hasId /\ byId.ok THEN byId.wf ELSE NoWf
        byName == GetWorkflowByName(rem, sp.name, fails)
        calls2 == IF existing1 = NoWf
                  THEN Append(calls1, Call("list", NoId, NoReq, byName)) ELSE calls1
        existing2 == IF existing1 = NoWf THEN byName.wf ELSE existing1
    IN  IF syncPolicy = SyncPolicyManual
        THEN Outcome(setCondition(st, ConditionTypeReady, "True", ReasonSyncPaused, gen),
                     TRUE, rem, nid, <<>>, <<>>, FALSE, FALSE, defaultRequeueInterval, "status")
        ELSE IF existing1 = NoWf /\ ~byName.ok
        THEN searchFailed(st, rem, nid, calls2, gen)
        ELSE CreateOrUpdateStep(st, sp, gen, clock, rem, nid, calls2, existing2, fails)

(***************************************************************************)
(* handleDeletion.                                                         *)
(***************************************************************************)
\* A not-found test that knows one spelling only.
IsNotFoundErrorOneSpelling(msg) == Contains(msg, <<"Not", "Found">>)

IsNotFoundError(msg) ==
    Contains(msg, <<"Not", "Found">>) \/ Contains(msg, <<"not", "found">>)

\* A cleanup that calls delete without looking at the recorded identifier.
handleDeletionUnguarded(st, fin, rem, nid, fails, failMsg) ==
    LET r == DeleteWorkflow(rem, st.workflowId, fails, failMsg)
        call == Call("delete", st.workflowId, NoReq, r)
        events == IF r.ok THEN <<Event("Normal", "Deleted")>>
                  ELSE IF IsNotFoundError(r.msg) THEN <<>>
                  ELSE <<Event("Warning", "DeleteFailed")>>
    IN  IF ~fin
        THEN Outcome(st, fin, rem, nid, <<>>, <<>>, FALSE, FALSE, 0, "none")
        ELSE Outcome(st, FALSE, r.remote, nid, <<call>>, events, FALSE, FALSE, 0, "update")

\* A cleanup that does not look whether the finalizer is there.
handleDeletionNoFinalizerTest(st, fin, rem, nid, fails, failMsg) ==
    LET r == DeleteWorkflow(rem, st.workflowId, fails, failMsg)
        call == Call("delete", st.workflowId, NoReq, r)
        events == IF r.ok THEN <<Event("Normal", "Deleted")>>
                  ELSE IF IsNotFoundError(r.msg) THEN <<>>
                  ELSE <<Event("Warning", "DeleteFailed")>>
    IN  IF st.workflowId # NoId
        THEN Outcome(st, FALSE, r.remote, nid, <<call>>, events, FALSE, FALSE, 0, "update")
        ELSE Outcome(st, FALSE, rem, nid, <<>>, <<>>, FALSE, FALSE, 0, "update")

\* A cleanup that removes the finalizer without the delete call.
handleDeletionMarkerOnly(st, fin, rem, nid, fails, failMsg) ==
    IF ~fin
    THEN Outcome(st, fin, rem, nid, <<>>, <<>>, FALSE, FALSE, 0, "none")
    ELSE Outcome(st, FALSE, rem, nid, <<>>, <<>>, FALSE, FALSE, 0, "update")

handleDeletion(st, fin, rem, nid, fails, failMsg) ==
    LET r == DeleteWorkflow(rem, st.workflowId, fails, failMsg)
        call == Call("delete", st.workflowId, NoReq, r)
        events == IF r.ok THEN <<Event("Normal", "Deleted")>>
                  ELSE IF IsNotFoundError(r.msg) THEN <<>>
                  ELSE <<Event("Warning", "DeleteFailed")>>
    IN  IF ~fin
        THEN Outcome(st, fin, rem, nid, <<>>, <<>>, FALSE, FALSE, 0, "none")
        ELSE IF st.workflowId # NoId
        THEN Outcome(st, FALSE, r.remote, nid, <<call>>, events, FALSE, FALSE, 0, "update")
        ELSE Outcome(st, FALSE, rem, nid, <<>>, <<>>, FALSE, FALSE, 0, "update")

\* A failure path that returns the error without recording it on status.
clientFailedUnrecorded(st, fin, rem, nid, gen) ==
    Outcome(st, fin, rem, nid, <<>>, <<>>, TRUE, FALSE, errorRequeueInterval, "none")

\* A failure path that also stamps the generation as observed.
clientFailedStamped(st, fin, rem, nid, gen) ==
    Outcome(setCondition([st EXCEPT !.observedGeneration = gen],
                         ConditionTypeReady, "False", ReasonAPIError, gen),
            fin, rem, nid, <<>>, <<>>, TRUE, FALSE, errorRequeueInterval, "status")

\* Reconcile, getN8nClient failed: Ready=False, Status().Update, return the
\* error with RequeueAfter errorRequeueInterval.
clientFailed(st, fin, rem, nid, gen) ==
    Outcome(setCondition(st, ConditionTypeReady, "False", ReasonAPIError, gen),
            fin, rem, nid, <<>>, <<>>, TRUE, FALSE, errorRequeueInterval, "status")

\* An admission that does not ask to be re-entered.
addFinalizerNoRequeue(st, rem, nid) ==
    Outcome(st, TRUE, rem, nid, <<>>, <<>>, FALSE, FALSE, 0, "update")

\* Reconcile, admission: AddFinalizer, r.Update, return Requeue: true.
addFinalizer(st, rem, nid) ==
    Outcome(st, TRUE, rem, nid, <<>>, <<>>, FALSE, TRUE, 0, "update")

(***************************************************************************)
(* Reconcile, for a resource that is in the store.                         *)
(***************************************************************************)
\* A pass that syncs a resource whether or not it carries the finalizer.
ReconcileOutcomeNoAdmission(st, fin, del, sp, tgt, gen, clock, rem, nid, fails, failMsg) ==
    IF ~getN8nClient(tgt).ok
    THEN clientFailed(st, fin, rem, nid, gen)
    ELSE IF del
    THEN handleDeletion(st, fin, rem, nid, fails, failMsg)
    ELSE reconcileWorkflow(st, sp, gen, clock, rem, nid, fails)

\* A pass that tests the deletion marker before it resolves the target.
ReconcileOutcomeDeletionFirst(st, fin, del, sp, tgt, gen, clock, rem, nid, fails, failMsg) ==
    IF del
    THEN handleDeletion(st, fin, rem, nid, fails, failMsg)
    ELSE IF ~getN8nClient(tgt).ok
    THEN clientFailed(st, fin, rem, nid, gen)
    ELSE IF ~fin
    THEN addFinalizer(st, rem, nid)
    ELSE reconcileWorkflow(st, sp, gen, clock, rem, nid, fails)

\* A pass that applies the Manual gate before it tests the deletion marker.
ReconcileOutcomeManualFirst(st, fin, del, sp, tgt, gen, clock, rem, nid, fails, failMsg) ==
    IF ~getN8nClient(tgt).ok
    THEN clientFailed(st, fin, rem, nid, gen)
    ELSE IF EffectivePolicy(sp.syncPolicy) = SyncPolicyManual
    THEN Outcome(setCondition(st, ConditionTypeReady, "True", ReasonSyncPaused, gen),
                 fin, rem, nid, <<>>, <<>>, FALSE, FALSE, defaultRequeueInterval, "status")
    ELSE IF del
    THEN handleDeletion(st, fin, rem, nid, fails, failMsg)
    ELSE IF ~fin
    THEN addFinalizer(st, rem, nid)
    ELSE reconcileWorkflow(st, sp, gen, clock, rem, nid, fails)

ReconcileOutcome(st, fin, del, sp, tgt, gen, clock, rem, nid, fails, failMsg) ==
    IF ~getN8nClient(tgt).ok
    THEN clientFailed(st, fin, rem, nid, gen)
    ELSE IF del
    THEN handleDeletion(st, fin, rem, nid, fails, failMsg)
    ELSE IF ~fin
    THEN addFinalizer(st, rem, nid)
    ELSE reconcileWorkflow(st, sp, gen, clock, rem, nid, fails)

(***************************************************************************)
(* State machine.                                                          *)
(***************************************************************************)
\* The API server defaults an empty policy to Always.
Policies == {SyncPolicyAlways, SyncPolicyCreateOnly, SyncPolicyManual}
\* A pass ends at the first failing call other than get-by-id, so at most
\* one such failure per pass is drawn.
FailSets == {f \in SUBSET Ops : Cardinality(f \ {"get"}) <= 1}
FailMsgs == {MsgNotFound, MsgLowerNotFound, MsgServerError}

NoSpec == [syncPolicy |-> "", active |-> FALSE, name |-> WorkflowName, nodes |-> <<>>]
NoResult == [pass |-> FALSE, resolved |-> FALSE, err |-> FALSE, requeue |-> FALSE,
             requeueAfter |-> 0, events |-> <<>>]
NoPre == [exists |-> FALSE, deleting |-> FALSE, finalizer |-> FALSE, generation |-> 0,
          spec |-> NoSpec, status |-> EmptyStatus, remote |-> {}, synced |-> FALSE]
NoMem == [status |-> EmptyStatus, finalizer |-> FALSE]

Init ==
    /\ exists = FALSE
    /\ deleting = FALSE
    /\ finalizer = FALSE
    /\ generation = 0
    /\ spec = NoSpec
    /\ status = EmptyStatus
    /\ target = Unpinned
    /\ remote = {}
    /\ nextId = 1
    /\ pre = NoPre
    /\ mem = NoMem
    /\ trace = <<>>
    /\ result = NoResult

\* Steps of the environment end the record of the last pass.
Forget ==
    /\ pre' = NoPre
    /\ mem' = NoMem
    /\ trace' = <<>>
    /\ result' = NoResult

(***************************************************************************)
(* The reconciler.                                                         *)
(***************************************************************************)
WriteOp(out) ==
    IF out.write = "update"
    THEN (IF out.finalizer THEN "addFinalizer" ELSE "removeFinalizer")
    ELSE "statusUpdate"

\* One pass on the stored resource.  fails: the remote operations whose
\* request fails in this pass; failMsg: the message of a failing delete;
\* storeOk: the cluster store accepts the write the pass ends with.
\* The store drops a resource that carries the deletion marker once its last
\* finalizer is removed, and one without finalizer as soon as it is deleted.
Removed ==
    /\ exists' = FALSE
    /\ deleting' = FALSE
    /\ finalizer' = FALSE
    /\ generation' = 0
    /\ spec' = NoSpec
    /\ status' = EmptyStatus

\* The previous step was a pass that reached the end of reconcileWorkflow.
SyncedBy(res) ==
    res.pass /\ ~res.err /\ res.requeueAfter = defaultRequeueInterval
        /\ status.conditions[ConditionTypeReady].reason = ReasonSyncSucceeded

\* tgt: the connection target; clock: the time metav1.Now() returns, not
\* before the last sync.
Reconcile(tgt, fails, failMsg, storeOk, clock) ==
  \E out \in {ReconcileOutcome(status, finalizer, deleting, spec, tgt, generation,
                               clock, remote, nextId, fails, failMsg)} :
    LET written == out.write # "none" /\ storeOk
        fatal == out.write \in {"statusFatal", "update"} /\ ~storeOk
        storeCall == [op |-> WriteOp(out), id |-> NoId, req |-> NoReq, ok |-> storeOk,
                      wf |-> NoWf, msg |-> <<>>]
    IN  /\ exists
        /\ out.nextId <= MaxId + 1
        /\ fails \subseteq {c.op : c \in {out.calls[i] : i \in 1..Len(out.calls)}}
        /\ out.write = "none" => storeOk
        /\ remote' = out.remote
        /\ nextId' = out.nextId
        /\ IF written /\ out.write = "update" /\ deleting /\ ~out.finalizer
           THEN Removed
           ELSE /\ status' = IF written /\ out.write # "update" THEN out.status ELSE status
                /\ finalizer' = IF written /\ out.write = "update"
                                THEN out.finalizer ELSE finalizer
                /\ UNCHANGED <<exists, deleting, generation, spec>>
        /\ pre' = [exists |-> exists, deleting |-> deleting, finalizer |-> finalizer,
                   generation |-> generation, spec |-> spec, status |-> status,
                   remote |-> remote, synced |-> SyncedBy(result)]
        /\ mem' = [status |-> out.status, finalizer |-> out.finalizer]
        /\ UNCHANGED target
        /\ trace' = IF out.write = "none" THEN out.calls ELSE Append(out.calls, storeCall)
        /\ result' = [pass |-> TRUE,
                      resolved |-> getN8nClient(tgt).ok,
                      err |-> out.err \/ fatal,
                      requeue |-> out.requeue /\ ~fatal,
                      requeueAfter |-> IF fatal THEN 0 ELSE out.requeueAfter,
                      events |-> out.events]

\* A pass whose request names a resource that is no longer in the store.
ReconcileGone ==
    /\ ~exists
    /\ result # [NoResult EXCEPT !.pass = TRUE]
    /\ pre' = [NoPre EXCEPT !.remote = remote]
    /\ mem' = NoMem
    /\ trace' = <<>>
    /\ result' = [NoResult EXCEPT !.pass = TRUE]
    /\ UNCHANGED <<exists, deleting, finalizer, generation, spec, status,
                   target, remote, nextId>>

(***************************************************************************)
(* The user and the cluster.                                               *)
(***************************************************************************)
CreateResource(policy, active, nodes) ==
    /\ ~exists
    /\ exists' = TRUE
    /\ deleting' = FALSE
    /\ finalizer' = FALSE
    /\ generation' = 1
    /\ spec' = [syncPolicy |-> policy, active |-> active, name |-> WorkflowName,
                nodes |-> nodes]
    /\ status' = EmptyStatus
    /\ Forget
    /\ UNCHANGED <<target, remote, nextId>>

\* The user changes one field of the spec: the policy, the desired
\* activation or the payload.
EditSpec(policy, active, nodes) ==
    /\ exists /\ ~deleting
    /\ generation < MaxGen
    /\ spec' = [spec EXCEPT !.syncPolicy = policy, !.active = active, !.nodes = nodes]
    /\ Cardinality({f \in {"syncPolicy", "active", "nodes"} : spec'[f] # spec[f]}) = 1
    /\ generation' = generation + 1
    /\ Forget
    /\ UNCHANGED <<exists, deleting, finalizer, status, target, remote, nextId>>

DeleteResource ==
    /\ exists /\ ~deleting
    /\ IF finalizer
       THEN deleting' = TRUE /\ UNCHANGED <<exists, finalizer, generation, spec, status>>
       ELSE Removed
    /\ Forget
    /\ UNCHANGED <<target, remote, nextId>>

(***************************************************************************)
(* The remote UI: out-of-band changes to the engine.                       *)
(***************************************************************************)
UICreate(name) ==
    /\ nextId <= MaxId
    /\ remote' = remote \cup {[id |-> nextId, name |-> name, active |-> FALSE,
                               nodes |-> NodesPlain]}
    /\ nextId' = nextId + 1
    /\ Forget
    /\ UNCHANGED <<exists, deleting, finalizer, generation, spec, status, target>>

\* Only workflows that carry the declared name are ever read by a pass, so
\* edits to the others are not drawn.
UIEdit(id) ==
    /\ id \in Ids(remote)
    /\ Lookup(remote, id).name = WorkflowName
    /\ remote' = (remote \ {Lookup(remote, id)})
                    \cup {[Lookup(remote, id) EXCEPT
                             !.nodes = IF @ = NodesHook THEN NodesPlain ELSE NodesHook]}
    /\ Forget
    /\ UNCHANGED <<exists, deleting, finalizer, generation, spec, status,
                   target, nextId>>

UIToggle(id) ==
    /\ id \in Ids(remote)
    /\ Lookup(remote, id).name = WorkflowName
    /\ remote' = (remote \ {Lookup(remote, id)})
                    \cup {[Lookup(remote, id) EXCEPT !.active = ~@]}
    /\ Forget
    /\ UNCHANGED <<exists, deleting, finalizer, generation, spec, status,
                   target, nextId>>

UIDelete(id) ==
    /\ id \in Ids(remote)
    /\ remote' = remote \ {Lookup(remote, id)}
    /\ Forget
    /\ UNCHANGED <<exists, deleting, finalizer, generation, spec, status,
                   target, nextId>>

Max(a, b) == IF a > b THEN a ELSE b

\* A pass of the dispatcher.  The cluster store, an external collaborator,
\* accepts the write the pass ends with.
Pass ==
    \E fails \in FailSets, clock \in Max(1, status.lastSyncTime)..MaxTime :
        \E failMsg \in (IF "delete" \in fails THEN FailMsgs ELSE {MsgServerError}) :
            \E t \in TargetsOf(target) : Reconcile(t, fails, failMsg, TRUE, clock)

Next ==
    \/ Pass
    \/ ReconcileGone
    \/ \E p \in Policies, a \in BOOLEAN, n \in DeclaredNodes : CreateResource(p, a, n)
    \/ \E p \in Policies, a \in BOOLEAN, n \in DeclaredNodes : EditSpec(p, a, n)
    \/ DeleteResource
    \/ \E name \in {WorkflowName, OtherName} : UICreate(name)
    \/ \E id \in 1..MaxId : UIEdit(id)
    \/ \E id \in 1..MaxId : UIToggle(id)
    \/ \E id \in 1..MaxId : UIDelete(id)

Spec == Init /\ [][Next]_vars

(***************************************************************************)
(* Deletion under a connection target that stays in force: the resource    *)
(* is created, reconciled, deleted, and its remote counterpart may be      *)
(* deleted out-of-band.  The dispatcher re-invokes a pass for as long as    *)
(* one has something to do (requeue after an error, watch events).         *)
(***************************************************************************)
InitPinned ==
    /\ exists = FALSE
    /\ deleting = FALSE
    /\ finalizer = FALSE
    /\ generation = 0
    /\ spec = NoSpec
    /\ status = EmptyStatus
    /\ target = TargetExplicit
    /\ remote = {}
    /\ nextId = 1
    /\ pre = NoPre
    /\ mem = NoMem
    /\ trace = <<>>
    /\ result = NoResult

\* The Secret the target names is deleted from the cluster.
SecretDeleted ==
    /\ target.secretRef /\ target.secretExists
    /\ target' = [target EXCEPT !.secretExists = FALSE, !.secretKeys = {}]
    /\ Forget
    /\ UNCHANGED <<exists, deleting, finalizer, generation, spec, status, remote, nextId>>

NextDeletion ==
    \/ Pass
    \/ ReconcileGone
    \/ \E p \in Policies, a \in BOOLEAN, n \in DeclaredNodes : CreateResource(p, a, n)
    \/ DeleteResource
    \/ SecretDeleted
    \/ \E id \in 1..MaxId : UIDelete(id)

FairSpec == InitPinned /\ [][NextDeletion]_vars /\ WF_vars(Pass)

(***************************************************************************)
(* Reading the record of the last pass.                                    *)
(***************************************************************************)
Idx(op) == {i \in DOMAIN trace : trace[i].op = op}
Count(op) == Cardinality(Idx(op))
The(op) == trace[CHOOSE i \in Idx(op) : TRUE]
RemoteIdx == {i \in DOMAIN trace : trace[i].op \in Ops}
AllCallsOk == \A i \in DOMAIN trace : trace[i].ok
ListOk == \A i \in Idx("list") : trace[i].ok

\* The last pass reached reconcileWorkflow: the resource was in the store
\* without deletion marker, carried the finalizer, and its target resolved.
SyncPass ==
    result.pass /\ pre.exists /\ ~pre.deleting /\ pre.finalizer /\ result.resolved

\* The last pass reached handleDeletion.
DeletionPass == result.pass /\ pre.exists /\ pre.deleting /\ result.resolved

\* Before the pass the engine held no workflow under the recorded
\* identifier and none under the declared name.
NoCounterpart ==
    /\ pre.status.workflowId \notin Ids(pre.remote)
    /\ \A w \in pre.remote : w.name # pre.spec.name

\* The counterpart the pass held when it reached the activation step.
CounterpartIdx ==
    {i \in DOMAIN trace : /\ trace[i].op \in {"get", "list", "create", "update"}
                          /\ trace[i].ok /\ trace[i].wf # NoWf}
Counterpart == trace[CHOOSE i \in CounterpartIdx : \A j \in CounterpartIdx : j <= i].wf

\* The pass got through lookup and create/update without a failure.
ReachedActivation ==
    /\ SyncPass
    /\ pre.spec.syncPolicy \in {SyncPolicyAlways, SyncPolicyCreateOnly}
    /\ \A i \in DOMAIN trace : trace[i].op \in {"list", "create", "update"} => trace[i].ok

NoMutation ==
    Count("create") = 0 /\ Count("update") = 0 /\ Count("activate") = 0
        /\ Count("deactivate") = 0

Warnings == {i \in DOMAIN result.events : result.events[i].type = "Warning"}

NotFoundReply(c) ==
    ~c.ok /\ (Contains(c.msg, <<"Not", "Found">>) \/ Contains(c.msg, <<"not", "found">>))

(***************************************************************************)
(* C1.  Idempotence: after a pass that finished the sync successfully      *)
(* under Always or CreateOnly, a second pass run straight after it (no     *)
(* change to the resource or the engine in between), in which every call   *)
(* succeeds, issues no create, update, activate or deactivate call and     *)
(* leaves remote identifier, active flag, webhook path and conditions as   *)
(* they were.  The code issues an update in every pass under Always.       *)
(***************************************************************************)
C1_Idempotent ==
    (/\ SyncPass /\ pre.synced /\ AllCallsOk
     /\ pre.spec.syncPolicy \in {SyncPolicyAlways, SyncPolicyCreateOnly})
    => /\ NoMutation
       /\ status.workflowId = pre.status.workflowId
       /\ status.active = pre.status.active
       /\ status.webhookUrl = pre.status.webhookUrl
       /\ status.conditions = pre.status.conditions

C3_CreateOnlyNeverUpdates ==
    (result.pass /\ pre.exists /\ pre.spec.syncPolicy = SyncPolicyCreateOnly)
    => Count("update") = 0

\* A successful CreateOnly pass on a counterpart whose content differs from
\* a payload that was changed after the last sync.
C3_Witness ==
    /\ SyncPass /\ ~result.err
    /\ pre.spec.syncPolicy = SyncPolicyCreateOnly
    /\ pre.status.observedGeneration > 0
    /\ pre.status.observedGeneration < pre.generation
    /\ Count("get") = 1 /\ The("get").ok
    /\ The("get").wf.nodes # pre.spec.nodes
    /\ Lookup(remote, status.workflowId).nodes # spec.nodes

(***************************************************************************)
(* C4.  Under Always, after the declared payload changed, the pass that    *)
(* reaches the update step issues exactly one update call carrying the new *)
(* payload, and afterwards status holds the content fingerprint of the new *)
(* payload (the fingerprint of a payload being the payload's content).     *)
(* N8nWorkflowStatus has no field for a fingerprint.                       *)
(***************************************************************************)
C4_UpdateStoresFingerprint ==
    (/\ SyncPass /\ AllCallsOk
     /\ pre.spec.syncPolicy = SyncPolicyAlways
     /\ pre.status.observedGeneration < pre.generation
     /\ Count("create") = 0)
    => /\ Count("update") = 1
       /\ The("update").req = WorkflowCreateRequest(convertToN8nWorkflow(pre.spec))
       /\ "fingerprint" \in DOMAIN status
       /\ status.fingerprint = WorkflowCreateRequest(convertToN8nWorkflow(pre.spec))

(***************************************************************************)
(* C5.  Under Always, every pass that completes the sync successfully      *)
(* leaves the remote counterpart with the declared name and content, also  *)
(* when the content had been edited in the remote UI and the declared      *)
(* payload did not change.                                                 *)
(***************************************************************************)
C5_AlwaysOverwritesRemoteEdits ==
    (SyncPass /\ ~result.err /\ pre.spec.syncPolicy = SyncPolicyAlways)
    => /\ status.workflowId \in Ids(remote)
       /\ Lookup(remote, status.workflowId).nodes = pre.spec.nodes
       /\ Lookup(remote, status.workflowId).name = pre.spec.name

\* The declared payload is the one last synced, the counterpart's content
\* was changed out-of-band, and the pass put the declared content back.
C5_Witness ==
    /\ SyncPass /\ ~result.err
    /\ pre.spec.syncPolicy = SyncPolicyAlways
    /\ pre.status.observedGeneration = pre.generation
    /\ Count("get") = 1 /\ The("get").ok
    /\ The("get").wf.nodes # pre.spec.nodes
    /\ Lookup(remote, status.workflowId).nodes = pre.spec.nodes

(***************************************************************************)
(* C6.  Activation convergence in one pass under Always or CreateOnly that *)
(* reaches the activation step: desired active with the counterpart        *)
(* inactive issues exactly one activate call, for the counterpart, and no  *)
(* deactivate call; desired inactive with the counterpart active issues    *)
(* exactly one deactivate call and no activate call; when both agree       *)
(* neither call is issued and status.active is the counterpart's boolean.  *)
(***************************************************************************)
C6_ActivationConvergence ==
    ReachedActivation =>
       /\ (pre.spec.active /\ ~Counterpart.active)
             => /\ Count("activate") = 1 /\ Count("deactivate") = 0
                /\ The("activate").id = Counterpart.id
       /\ (~pre.spec.active /\ Counterpart.active)
             => /\ Count("deactivate") = 1 /\ Count("activate") = 0
                /\ The("deactivate").id = Counterpart.id
       /\ (pre.spec.active = Counterpart.active)
             => /\ Count("activate") = 0 /\ Count("deactivate") = 0
                /\ mem.status.active = Counterpart.active
                /\ status.active = Counterpart.active

\* Desired active and counterpart active while the cached status says
\* inactive: no call, and status.active follows the engine.
C6_Witness ==
    /\ ReachedActivation
    /\ pre.spec.active /\ Counterpart.active /\ ~pre.status.active
    /\ Count("activate") = 0 /\ Count("deactivate") = 0
    /\ status.active

C8_FinalizerEventuallyRemoved ==
    (exists /\ deleting /\ finalizer) ~> ~(exists /\ finalizer)

C10_ManualPauses ==
    (SyncPass /\ pre.spec.syncPolicy = SyncPolicyManual)
    => /\ RemoteIdx = {}
       /\ remote = pre.remote
       /\ status.conditions[ConditionTypeReady] =
             [status |-> "True", reason |-> ReasonSyncPaused]
       /\ status.workflowId = pre.status.workflowId
       /\ status.active = pre.status.active
       /\ status.webhookUrl = pre.status.webhookUrl
       /\ ~result.err /\ result.requeueAfter = defaultRequeueInterval

\* A recorded counterpart whose activation and content both differ from
\* what is declared.
C10_Witness ==
    /\ SyncPass /\ pre.spec.syncPolicy = SyncPolicyManual
    /\ pre.status.workflowId \in Ids(pre.remote)
    /\ Lookup(pre.remote, pre.status.workflowId).active # pre.spec.active
    /\ Lookup(pre.remote, pre.status.workflowId).nodes # pre.spec.nodes
    /\ status.conditions[ConditionTypeReady].reason = ReasonSyncPaused

(***************************************************************************)
(* C11.  Admission: a pass that reaches the admission step (the target     *)
(* resolves) on a resource without deletion marker and without finalizer   *)
(* attaches the finalizer, issues no remote call, writes no status and     *)
(* asks for immediate re-entry; afterwards the stored resource carries the *)
(* finalizer.                                                              *)
(***************************************************************************)
AdmissionPass ==
    result.pass /\ pre.exists /\ ~pre.deleting /\ ~pre.finalizer /\ result.resolved

EnvURL == [host |-> <<"n8n", "env">>, port |-> 80]

TargetSpace ==
    {t \in [ref : BOOLEAN, url : {EmptyURL, ExplicitURL}, name : {"", "svc"},
             namespace : {"", "ns"}, port : {0, 8080},
             secretRef : BOOLEAN, secretKey : {"", "token"},
             secretExists : BOOLEAN, secretKeys : {{}, {"api-key"}, {"token"}},
             secretValue : {"", "sk"},
             defURL : {EmptyURL, DefaultURL}, defKey : {"", "dk"},
             envURL : {EmptyURL, EnvURL}, envKey : {"", "ek"}] :
        /\ ~t.ref => (t.url = EmptyURL /\ t.name = "" /\ t.namespace = ""
                      /\ t.port = 0 /\ ~t.secretRef)
        /\ ~t.secretRef => (t.secretKey = "" /\ ~t.secretExists)
        /\ ~t.secretExists => (t.secretKeys = {} /\ t.secretValue = "")}

InitResolve ==
    /\ exists = FALSE
    /\ deleting = FALSE
    /\ finalizer = FALSE
    /\ generation = 0
    /\ spec = NoSpec
    /\ status = EmptyStatus
    /\ target \in TargetSpace
    /\ remote = {}
    /\ nextId = 1
    /\ pre = NoPre
    /\ mem = NoMem
    /\ trace = <<>>
    /\ result = NoResult

Resolve ==
    /\ ~result.pass
    /\ mem' = getN8nClient(target)
    /\ result' = [NoResult EXCEPT !.pass = TRUE, !.resolved = getN8nClient(target).ok]
    /\ UNCHANGED <<exists, deleting, finalizer, generation, spec, status, target,
                   remote, nextId, pre, trace>>

ResolveSpec == InitResolve /\ [][Resolve]_vars

\* getN8nClient has answered for the target in force.
Resolved == result.pass
URLSet == target.ref /\ target.url # EmptyURL
TripleSet == target.ref /\ target.name # "" /\ target.namespace # "" /\ target.port # 0
AnyTripleField ==
    target.ref /\ (target.name # "" \/ target.namespace # "" \/ target.port # 0)
ProcessDefaultURL == IF target.defURL # EmptyURL THEN target.defURL ELSE target.envURL
ProcessDefaultKey == IF target.defKey # "" THEN target.defKey ELSE target.envKey
\* The service address with the fields left empty filled in.
TripleURL ==
    ServiceURL(IF target.name = "" THEN DefaultServiceName ELSE target.name,
               IF target.namespace = "" THEN Namespace ELSE target.namespace,
               IF target.port = 0 THEN DefaultServicePort ELSE target.port)
\* The Secret named by the target cannot be read, or lacks the key.
SecretUnreadable ==
    /\ target.ref /\ target.secretRef
    /\ \/ ~target.secretExists
       \/ (IF target.secretKey = "" THEN DefaultSecretKey ELSE target.secretKey)
              \notin target.secretKeys
SecretKeyValue ==
    IF target.ref /\ target.secretRef /\ ~SecretUnreadable THEN target.secretValue ELSE ""

(***************************************************************************)
(* C12.  As claimed: resolution fails whenever the connection target sets  *)
(* both an explicit URL and a discovery triple (name, namespace, port).    *)
(***************************************************************************)
C12_BothSetRejected == (Resolved /\ URLSet /\ TripleSet) => ~mem.ok

(***************************************************************************)
(* C12 as amended: a connection target that sets both an explicit URL and  *)
(* a discovery triple is not rejected for that: the triple is ignored, the *)
(* explicit URL is the base address, and resolution fails exactly when no  *)
(* credential is obtained (the Secret named cannot be read or lacks the    *)
(* key, or Secret, reconciler default and environment all give none).      *)
(***************************************************************************)
C12_BothSetURLWins ==
    (Resolved /\ URLSet /\ TripleSet)
    => /\ mem.ok => mem.baseURL = target.url
       /\ mem.ok <=> /\ ~SecretUnreadable
                     /\ SecretKeyValue # "" \/ ProcessDefaultKey # ""

C12_Witness ==
    /\ Resolved /\ URLSet /\ TripleSet
    /\ mem.ok /\ mem.baseURL = ExplicitURL
    /\ mem.baseURL # TripleURL

(***************************************************************************)
(* C14.  As claimed: the base address is the explicit URL when set,        *)
(* otherwise the address built from the discovery triple, and the          *)
(* process-wide default whenever the target is absent or sets neither a    *)
(* URL nor any discovery field; resolution fails when base address or      *)
(* credential is empty.                                                    *)
(***************************************************************************)
C14_NeitherSetUsesDefault ==
    Resolved
    => /\ mem.ok => /\ mem.baseURL # EmptyURL /\ mem.apiKey # ""
                    /\ mem.baseURL = IF URLSet THEN target.url
                                      ELSE IF AnyTripleField THEN TripleURL
                                      ELSE ProcessDefaultURL
       /\ (~URLSet /\ ~AnyTripleField /\ ProcessDefaultURL = EmptyURL) => ~mem.ok

(***************************************************************************)
(* C14 as amended: the base address is the explicit URL when it is set;    *)
(* otherwise, whenever the connection target is present, the address built *)
(* from the discovery triple with every empty field defaulted (name        *)
(* n8n-service, the workflow's namespace, port 5678), also when no         *)
(* discovery field is set; and the process-wide default (reconciler        *)
(* default, else environment) only when the connection target is absent.   *)
(* Resolution fails when the resulting base address or the credential is   *)
(* empty, and when the Secret named cannot be read or lacks the key.       *)
(***************************************************************************)
C14_ResolutionOrder ==
    Resolved
    => /\ mem.ok => /\ mem.baseURL # EmptyURL /\ mem.apiKey # ""
                    /\ mem.baseURL = IF URLSet THEN target.url
                                      ELSE IF target.ref THEN TripleURL
                                      ELSE ProcessDefaultURL
                    /\ mem.apiKey = IF SecretKeyValue # "" THEN SecretKeyValue
                                     ELSE ProcessDefaultKey
       /\ ~mem.ok <=> \/ SecretUnreadable
                      \/ ~target.ref /\ ProcessDefaultURL = EmptyURL
                      \/ SecretKeyValue = "" /\ ProcessDefaultKey = ""

\* An n8nRef that carries a secretRef only, with process-wide defaults set:
\* the default service address is used, not the process-wide default.
C14_Witness ==
    /\ Resolved /\ target.ref /\ ~URLSet /\ ~AnyTripleField
    /\ target.defURL = DefaultURL
    /\ mem.ok
    /\ mem.baseURL = ServiceURL(DefaultServiceName, Namespace, DefaultServicePort)
    /\ mem.baseURL # DefaultURL

(***************************************************************************)
(* The N8nInstance reconciler (internal/controller/                        *)
(* n8ninstance_controller.go).  One N8nInstance is in the store: spec      *)
(* holds its N8nInstanceSpec, status its N8nInstanceStatus, target the     *)
(* credentials Secret as it is in the store; pre, mem, trace and result    *)
(* record the last pass as they do for the workflow reconciler.            *)
(***************************************************************************)
healthCheckInterval == 300
instanceErrorRequeueInterval == 30
InstanceConditionTypeReady == "Ready"
InstanceReasonConnected == "Connected"
InstanceReasonConnectionError == "ConnectionError"
InstanceReasonAuthError == "AuthenticationError"
InstanceReasonInvalidConfig == "InvalidConfiguration"

InstanceSpecs ==
    {i \in [url : {EmptyURL, ExplicitURL}, serviceRef : BOOLEAN, name : {"", "svc"},
             namespace : {"", "ns"}, port : {0, 8080},
             secretName : {"", "creds"}, secretKey : {"", "token"}] :
        ~i.serviceRef => (i.name = "" /\ i.namespace = "" /\ i.port = 0)}

\* The Secret named creds: absent, or present with these data keys.
InstanceSecrets ==
    {[secretExists |-> FALSE, secretKeys |-> {}],
     [secretExists |-> TRUE, secretKeys |-> {"api-key"}],
     [secretExists |-> TRUE, secretKeys |-> {"token"}]}

InstanceEmptyStatus ==
    [ready |-> FALSE, url |-> EmptyURL, lastHealthCheck |-> NoTime,
     observedGeneration |-> 0, conditions |-> [Ready |-> NoCond]]

\* validateInstance: the error it returns, <<>> for nil.
validateInstanceBothAllowed(sp) ==
    LET hasURL == sp.url # EmptyURL
        hasServiceRef == sp.serviceRef
    IN  IF ~hasURL /\ ~hasServiceRef THEN <<"either", "url", "or", "serviceRef">>
        ELSE IF hasServiceRef /\ sp.name = "" THEN <<"serviceRef.name", "is", "required">>
        ELSE IF hasServiceRef /\ sp.namespace = ""
        THEN <<"serviceRef.namespace", "is", "required">>
        ELSE IF sp.secretName = "" THEN <<"credentials.secretName", "is", "required">>
        ELSE <<>>

validateInstance(sp) ==
    LET hasURL == sp.url # EmptyURL
        hasServiceRef == sp.serviceRef
    IN  IF ~hasURL /\ ~hasServiceRef THEN <<"either", "url", "or", "serviceRef">>
        ELSE IF hasURL /\ hasServiceRef THEN <<"only", "one", "of", "url", "or", "serviceRef">>
        ELSE IF hasServiceRef /\ sp.name = "" THEN <<"serviceRef.name", "is", "required">>
        ELSE IF hasServiceRef /\ sp.namespace = ""
        THEN <<"serviceRef.namespace", "is", "required">>
        ELSE IF sp.secretName = "" THEN <<"credentials.secretName", "is", "required">>
        ELSE <<>>

GetResolvedURL(sp) ==
    IF sp.url # EmptyURL THEN sp.url
    ELSE IF sp.serviceRef
    THEN ServiceURL(sp.name, sp.namespace,
                    IF sp.port = 0 THEN DefaultServicePort ELSE sp.port)
    ELSE EmptyURL

GetSecretKey(sp) == IF sp.secretKey # "" THEN sp.secretKey ELSE DefaultSecretKey

\* getAPIKey succeeds: the Secret is there and holds the key.
getAPIKey(sp, sec) == sec.secretExists /\ GetSecretKey(sp) \in sec.secretKeys

InstanceCall(op, ok) ==
    [op |-> op, id |-> NoId, req |-> NoReq, ok |-> ok, wf |-> NoWf, msg |-> <<>>]

instanceSetCondition(st, condStatus, reason) ==
    [st EXCEPT !.conditions[InstanceConditionTypeReady] =
                   [status |-> condStatus, reason |-> reason]]

\* Reconcile of the instance reconciler up to its Status().Update:
\* the in-memory status, the reads and remote calls in order, the events,
\* the requeue interval, and whether a failed status write is returned.
instanceReconcile(st, sp, gen, sec, healthOk, clock) ==
    LET failed(s1, reason) ==
            [instanceSetCondition(s1, "False", reason) EXCEPT !.ready = FALSE]
        st1 == [st EXCEPT !.url = GetResolvedURL(sp)]
    IN  IF validateInstance(sp) # <<>>
        THEN [status |-> failed(st, InstanceReasonInvalidConfig), calls |-> <<>>,
              events |-> <<>>, requeueAfter |-> instanceErrorRequeueInterval,
              fatalWrite |-> FALSE]
        ELSE IF ~getAPIKey(sp, sec)
        THEN [status |-> failed(st1, InstanceReasonAuthError),
              calls |-> <<InstanceCall("secretGet", sec.secretExists)>>,
              events |-> <<Event("Warning", "SecretError")>>,
              requeueAfter |-> instanceErrorRequeueInterval, fatalWrite |-> FALSE]
        ELSE IF ~healthOk
        THEN [status |-> failed(st1, InstanceReasonConnectionError),
              calls |-> <<InstanceCall("secretGet", TRUE),
                          InstanceCall("healthCheck", FALSE)>>,
              events |-> <<Event("Warning", "HealthCheckFailed")>>,
              requeueAfter |-> instanceErrorRequeueInterval, fatalWrite |-> FALSE]
        ELSE [status |-> instanceSetCondition(
                             [st1 EXCEPT !.ready = TRUE, !.lastHealthCheck = clock,
                                         !.observedGeneration = gen],
                             "True", InstanceReasonConnected),
              calls |-> <<InstanceCall("secretGet", TRUE),
                          InstanceCall("healthCheck", TRUE)>>,
              events |-> <<>>, requeueAfter |-> healthCheckInterval,
              fatalWrite |-> TRUE]
InitInstance ==
    /\ exists = TRUE
    /\ deleting = FALSE
    /\ finalizer = FALSE
    /\ generation = 1
    /\ spec \in InstanceSpecs
    /\ status = InstanceEmptyStatus
    /\ target \in InstanceSecrets
    /\ remote = {}
    /\ nextId = 1
    /\ pre = NoPre
    /\ mem = NoMem
    /\ trace = <<>>
    /\ result = NoResult

\* One pass of the instance reconciler.  healthOk: the engine answers the
\* health check; storeOk: the store accepts the status write.
InstanceReconcile(healthOk, storeOk, clock) ==
  \E out \in {instanceReconcile(status, spec, generation, target, healthOk, clock)} :
    /\ healthOk \/ \E i \in 1..Len(out.calls) : out.calls[i].op = "healthCheck"
    /\ status' = IF storeOk THEN out.status ELSE status
    /\ pre' = [NoPre EXCEPT !.exists = TRUE, !.generation = generation,
                            !.spec = spec, !.status = status]
    /\ mem' = [status |-> out.status, finalizer |-> FALSE]
    /\ trace' = Append(out.calls, InstanceCall("statusUpdate", storeOk))
    /\ result' = [pass |-> TRUE,
                  resolved |-> validateInstance(spec) = <<>>,
                  err |-> out.fatalWrite /\ ~storeOk,
                  requeue |-> FALSE,
                  requeueAfter |-> IF out.fatalWrite /\ ~storeOk THEN 0
                                   ELSE out.requeueAfter,
                  events |-> out.events]
    /\ UNCHANGED <<exists, deleting, finalizer, generation, spec, target, remote, nextId>>

InstancePass ==
    \E healthOk \in BOOLEAN, storeOk \in BOOLEAN,
       clock \in Max(1, status.lastHealthCheck)..MaxTime :
        InstanceReconcile(healthOk, storeOk, clock)

\* The user changes url, serviceRef or credentials.secretName of the
\* N8nInstance.
EditInstance ==
    /\ generation < MaxGen
    /\ \E sp \in InstanceSpecs :
          /\ sp # spec
          /\ sp.secretKey = spec.secretKey /\ sp.port = spec.port
          /\ spec' = sp
    /\ generation' = generation + 1
    /\ Forget
    /\ UNCHANGED <<exists, deleting, finalizer, status, target, remote, nextId>>

\* The credentials Secret is created, replaced or deleted.
SetSecret ==
    /\ \E sec \in InstanceSecrets : sec # target /\ target' = sec
    /\ Forget
    /\ UNCHANGED <<exists, deleting, finalizer, generation, spec, status, remote, nextId>>

NextInstance == InstancePass \/ EditInstance \/ SetSecret

InstanceSpec == InitInstance /\ [][NextInstance]_vars

(***************************************************************************)
(* C13.  An N8nInstance that sets both url and serviceRef, or neither, is  *)
(* rejected in every pass: the pass sets Ready=False with reason           *)
(* InvalidConfiguration and status.ready=false, reads no Secret, performs  *)
(* no health check, returns no error and asks for a retry after 30         *)
(* seconds.                                                                *)
(***************************************************************************)
BothOrNeither(sp) == (sp.url # EmptyURL) = sp.serviceRef

C13_InstanceRejected ==
    (result.pass /\ BothOrNeither(pre.spec))
    => /\ trace = <<The("statusUpdate")>>
       /\ mem.status.conditions[InstanceConditionTypeReady] =
             [status |-> "False", reason |-> InstanceReasonInvalidConfig]
       /\ ~mem.status.ready
       /\ The("statusUpdate").ok =>
             /\ status.conditions[InstanceConditionTypeReady] =
                   [status |-> "False", reason |-> InstanceReasonInvalidConfig]
             /\ ~status.ready
       /\ ~result.err
       /\ result.requeueAfter = instanceErrorRequeueInterval

\* An instance that was connected and ready, then given a serviceRef on
\* top of its url while Secret and engine stay fine: rejected, ready
\* dropped.
C13_Witness ==
    /\ result.pass
    /\ pre.spec.url # EmptyURL /\ pre.spec.serviceRef
    /\ pre.spec.secretName # "" /\ getAPIKey(pre.spec, target)
    /\ pre.status.ready
    /\ ~status.ready
    /\ status.conditions[InstanceConditionTypeReady].reason = InstanceReasonInvalidConfig

(***************************************************************************)
(* Webhook extraction on its own: extractWebhookURL applied to the         *)
(* workflow the engine holds, for every node list of a bounded space; the  *)
(* result is put in status.webhookUrl as reconcileWorkflow does.           *)
(***************************************************************************)
MaxNodes == 3

NodeKinds ==
    {[type |-> WebhookNodeType, parameters |-> [path |-> "a"]],
     [type |-> WebhookNodeType, parameters |-> [path |-> "b"]],
     [type |-> WebhookNodeType, parameters |-> [method |-> "POST"]],
     [type |-> WebhookNodeType],
     [type |-> "n8n-nodes-base.set", parameters |-> [path |-> "x"]],
     [name |-> "untyped"]}

RECURSIVE NodeLists(_)
NodeLists(n) ==
    IF n = 0 THEN {<<>>}
    ELSE NodeLists(n - 1)
         \cup {Append(l, k) : l \in {m \in NodeLists(n - 1) : Len(m) = n - 1},
                              k \in NodeKinds}

InitExtract ==
    /\ exists = FALSE
    /\ deleting = FALSE
    /\ finalizer = FALSE
    /\ generation = 0
    /\ spec = NoSpec
    /\ status = EmptyStatus
    /\ target = Unpinned
    /\ \E nodes \in NodeLists(MaxNodes) :
          remote = {[id |-> 1, name |-> WorkflowName, active |-> FALSE, nodes |-> nodes]}
    /\ nextId = 1
    /\ pre = NoPre
    /\ mem = NoMem
    /\ trace = <<>>
    /\ result = NoResult

Extract ==
    /\ ~result.pass
    /\ status' = [status EXCEPT !.webhookUrl = extractWebhookURL(Lookup(remote, 1))]
    /\ result' = [NoResult EXCEPT !.pass = TRUE]
    /\ UNCHANGED <<exists, deleting, finalizer, generation, spec, target, remote,
                   nextId, pre, mem, trace>>

ExtractSpec == InitExtract /\ [][Extract]_vars

Extracted == result.pass
GivenNodes == Lookup(remote, 1).nodes
IsHook(node) == "type" \in DOMAIN node /\ node.type = WebhookNodeType
PathOf(node) ==
    IF "parameters" \in DOMAIN node /\ "path" \in DOMAIN node.parameters
    THEN <<"/webhook/", node.parameters.path>> ELSE NoURL
HookIdx == {i \in DOMAIN GivenNodes : IsHook(GivenNodes[i])}
UsableIdx == {i \in HookIdx : PathOf(GivenNodes[i]) # NoURL}
First(S) == CHOOSE i \in S : \A j \in S : i <= j

(***************************************************************************)
(* C15.  As claimed: extraction returns the path of the first node whose   *)
(* type is the webhook trigger, empty when no node has that type, and      *)
(* empty when that first webhook node lacks a string path (later webhook   *)
(* nodes are not consulted).                                               *)
(***************************************************************************)
C15_FirstWebhookOnly ==
    Extracted
    => status.webhookUrl = IF HookIdx = {} THEN NoURL
                           ELSE PathOf(GivenNodes[First(HookIdx)])

(***************************************************************************)
(* C15 as amended: extraction returns "/webhook/" followed by the path of  *)
(* the first node, in node-list order, whose type is the webhook trigger   *)
(* and whose parameters hold a string path; webhook nodes without one are  *)
(* skipped and later nodes are consulted; it returns empty when no node    *)
(* is such a webhook node.                                                 *)
(***************************************************************************)
C15_FirstUsableWebhook ==
    Extracted
    => status.webhookUrl = IF UsableIdx = {} THEN NoURL
                           ELSE PathOf(GivenNodes[First(UsableIdx)])

\* A webhook node without path, then two webhook nodes with different
\* paths: the path of the second node of the list is returned.
C15_Witness ==
    /\ Extracted
    /\ Len(GivenNodes) = 3
    /\ HookIdx = {1, 2, 3} /\ UsableIdx = {2, 3}
    /\ PathOf(GivenNodes[2]) # PathOf(GivenNodes[3])
    /\ status.webhookUrl = PathOf(GivenNodes[2])

(***************************************************************************)
(* C16.  When target resolution fails in a pass, Reconcile returns an      *)
(* error together with a 30-second retry request, records Ready=False on   *)
(* status, issues no remote call, neither adds nor removes the finalizer,  *)
(* and the declared resource stays in the store, deletion marker or not.   *)
(***************************************************************************)
C16_ResolutionFailure ==
    (result.pass /\ pre.exists /\ ~result.resolved)
    => /\ result.err /\ result.requeueAfter = errorRequeueInterval
       /\ RemoteIdx = {}
       /\ remote = pre.remote
       /\ Count("statusUpdate") = 1
       /\ status.conditions[ConditionTypeReady].status = "False"
       /\ Count("addFinalizer") = 0 /\ Count("removeFinalizer") = 0
       /\ finalizer = pre.finalizer
       /\ exists /\ deleting = pre.deleting

\* ... on a resource waiting for its cleanup, counterpart still there.
C16_Witness ==
    /\ result.pass /\ pre.exists /\ ~result.resolved
    /\ pre.deleting /\ pre.finalizer
    /\ pre.status.workflowId \in Ids(pre.remote)
    /\ pre.status.conditions[ConditionTypeReady].status = "True"
    /\ status.conditions[ConditionTypeReady] = [status |-> "False", reason |-> ReasonAPIError]
    /\ exists /\ finalizer /\ result.err

(***************************************************************************)
(* Convergence.  While the target is Unpinned the system is disturbed:     *)
(* resolution and remote calls may fail and the remote UI renames,         *)
(* toggles and deletes workflows.  Settle ends the disturbance: from then  *)
(* on the target in force resolves, every remote call and store write      *)
(* succeeds, and neither the resource nor the engine is touched from       *)
(* outside.  The dispatcher keeps re-invoking passes (periodic requeue).    *)
(***************************************************************************)
UIRename(id) ==
    /\ id \in Ids(remote)
    /\ Lookup(remote, id).name = WorkflowName
    /\ remote' = (remote \ {Lookup(remote, id)})
                    \cup {[Lookup(remote, id) EXCEPT !.name = OtherName]}
    /\ Forget
    /\ UNCHANGED <<exists, deleting, finalizer, generation, spec, status,
                   target, nextId>>

Disturbed == target = Unpinned

\* One identifier is left for the create call a settled pass may need.
Settle ==
    /\ Disturbed
    /\ nextId <= MaxId
    /\ target' = TargetExplicit
    /\ Forget
    /\ UNCHANGED <<exists, deleting, finalizer, generation, spec, status, remote, nextId>>

NoisyPass == Disturbed /\ Pass

QuietPass ==
    /\ ~Disturbed
    /\ \E clock \in Max(1, status.lastSyncTime)..MaxTime :
          Reconcile(target, {}, MsgServerError, TRUE, clock)

NextConverge ==
    \/ NoisyPass
    \/ QuietPass
    \/ Settle
    \/ Disturbed /\ \E p \in Policies, a \in BOOLEAN, n \in DeclaredNodes :
                        CreateResource(p, a, n)
    \/ Disturbed /\ \E id \in 1..MaxId : UIRename(id)
    \/ Disturbed /\ \E id \in 1..MaxId : UIToggle(id)
    \/ Disturbed /\ \E id \in 1..MaxId : UIDelete(id)

ConvergeSpec == Init /\ [][NextConverge]_vars /\ WF_vars(QuietPass)

\* The disturbance is over for a resource with policy Always or CreateOnly.
Settled ==
    /\ ~Disturbed /\ exists
    /\ spec.syncPolicy \in {SyncPolicyAlways, SyncPolicyCreateOnly}

\* The workflow status.workflowId names is held by the engine with the
\* desired activation, and status says so.
ConvergedById ==
    /\ status.workflowId \in Ids(remote)
    /\ Lookup(remote, status.workflowId).active = spec.active
    /\ status.active = spec.active
    /\ status.conditions[ConditionTypeReady].status = "True"

(***************************************************************************)
(* C17.  As claimed: once the disturbance is over, a resource with policy  *)
(* Always or CreateOnly reaches and stays in a state where the engine      *)
(* holds a workflow with the declared name whose activation is            *)
(* spec.active, status.workflowId is its identifier, status.active is      *)
(* spec.active and Ready=True.                                             *)
(***************************************************************************)
C17_ConvergesToDeclaredName ==
    <>[](Settled => /\ ConvergedById
                    /\ Lookup(remote, status.workflowId).name = spec.name)

(***************************************************************************)
(* C17 as amended: once the disturbance is over, a resource with policy    *)
(* Always or CreateOnly reaches and stays in a state where the engine      *)
(* holds the workflow status.workflowId names with activation spec.active, *)
(* status.active is spec.active and Ready=True; under Always that workflow *)
(* carries the declared name and nodes, under CreateOnly it keeps the name *)
(* and nodes it was given in the remote UI.                                *)
(***************************************************************************)
C17_Converges ==
    <>[](Settled => /\ ConvergedById
                    /\ spec.syncPolicy = SyncPolicyAlways
                          => /\ Lookup(remote, status.workflowId).name = spec.name
                             /\ Lookup(remote, status.workflowId).nodes = spec.nodes)

\* Settled and converged under CreateOnly on a counterpart that was renamed
\* in the remote UI and had to be activated by the settled pass.
C17_Witness ==
    /\ Settled /\ ConvergedById
    /\ spec.syncPolicy = SyncPolicyCreateOnly
    /\ Lookup(remote, status.workflowId).name = OtherName
    /\ result.pass /\ Count("activate") = 1 /\ The("activate").ok

(***************************************************************************)
(* Crashes.  One declared workflow with a spec that is never edited, an    *)
(* engine nobody else touches.  A pass may be cut short after any number   *)
(* of its remote calls: the calls made so far have taken effect in the     *)
(* engine, nothing is written to the store.                                *)
(***************************************************************************)
\* What a call that succeeded did to the engine.
ApplyCall(rem, c) ==
    IF ~c.ok THEN rem
    ELSE IF c.op = "create" THEN rem \cup {c.wf}
    ELSE IF c.op \in {"update", "activate", "deactivate"}
    THEN (rem \ {Lookup(rem, c.id)}) \cup {c.wf}
    ELSE IF c.op = "delete" THEN rem \ {Lookup(rem, c.id)}
    ELSE rem

RECURSIVE Replay(_, _, _)
Replay(rem, calls, k) ==
    IF k = 0 THEN rem ELSE ApplyCall(Replay(rem, calls, k - 1), calls[k])

Creates(calls, k) == Cardinality({i \in 1..k : calls[i].op = "create" /\ calls[i].ok})

\* A pass that dies after its k-th remote call.
CrashedPass(k, fails, clock) ==
  \E out \in {ReconcileOutcome(status, finalizer, deleting, spec, TargetExplicit,
                               generation, clock, remote, nextId, fails, MsgServerError)} :
    /\ exists
    /\ out.nextId <= MaxId + 1
    /\ k <= Len(out.calls)
    /\ out.write # "none"
    /\ fails \subseteq {out.calls[i].op : i \in 1..k}
    /\ remote' = Replay(remote, out.calls, k)
    /\ nextId' = nextId + Creates(out.calls, k)
    /\ pre' = [exists |-> exists, deleting |-> deleting, finalizer |-> finalizer,
               generation |-> generation, spec |-> spec, status |-> status,
               remote |-> remote, synced |-> SyncedBy(result)]
    /\ mem' = NoMem
    /\ trace' = SubSeq(out.calls, 1, k)
    /\ result' = [NoResult EXCEPT !.pass = TRUE, !.resolved = TRUE, !.err = TRUE]
    /\ UNCHANGED <<exists, deleting, finalizer, generation, spec, status, target>>

Crash ==
    \E k \in 0..4, fails \in FailSets, clock \in Max(1, status.lastSyncTime)..MaxTime :
        CrashedPass(k, fails, clock)

NextCrash ==
    \/ Pass
    \/ Crash
    \/ \E p \in Policies, a \in BOOLEAN, n \in DeclaredNodes : CreateResource(p, a, n)

CrashSpec == Init /\ [][NextCrash]_vars

(***************************************************************************)
(* C18.  Crash safety: with a fixed spec and no external mutation, passes  *)
(* that may die after any step, also after a successful create call and    *)
(* before status is persisted, never leave the engine with more than one   *)
(* workflow carrying the declared name.                                    *)
(***************************************************************************)
Named(rem) == {w \in rem : w.name = WorkflowName}

C18_AtMostOneNamed == Cardinality(Named(remote)) <= 1

\* A pass died right after its create call; the next pass found the
\* workflow by name, issued no create and recorded its identifier.
C18_Witness ==
    /\ result.pass /\ ~result.err
    /\ pre.status.workflowId = NoId
    /\ Cardinality(Named(pre.remote)) = 1
    /\ Count("list") = 1 /\ Count("create") = 0
    /\ status.workflowId \in Ids(Named(remote))
    /\ C18_AtMostOneNamed

(***************************************************************************)
(* Lookup by name.  The engine holds any set of workflows, several of      *)
(* them possibly under the same name; one lookup for spec.name is made,    *)
(* its reply kept in mem, whether the listing failed in result.err.        *)
(***************************************************************************)
LookupNames == {WorkflowName, OtherName}
EngineIds == 1..(MaxId + 1)

\* The engine states: at most one workflow per identifier.
Engines ==
    {rem \in SUBSET [id : EngineIds, name : LookupNames, active : BOOLEAN,
                     nodes : {NodesPlain}] :
        \A v, w \in rem : v.id = w.id => v = w}

InitLookup ==
    /\ exists = FALSE
    /\ deleting = FALSE
    /\ finalizer = FALSE
    /\ generation = 0
    /\ \E n \in LookupNames : spec = [NoSpec EXCEPT !.name = n]
    /\ status = EmptyStatus
    /\ target = Unpinned
    /\ remote \in Engines
    /\ nextId = MaxId + 2
    /\ pre = NoPre
    /\ mem = NoMem
    /\ trace = <<>>
    /\ result = NoResult

FindByName(fails) ==
    /\ ~result.pass
    /\ mem' = GetWorkflowByName(remote, spec.name, fails)
    /\ result' = [NoResult EXCEPT !.pass = TRUE, !.err = ("list" \in fails)]
    /\ UNCHANGED <<exists, deleting, finalizer, generation, spec, status, target,
                   remote, nextId, pre, trace>>

NextLookup == \E fails \in {{}, {"list"}} : FindByName(fails)

LookupSpec == InitLookup /\ [][NextLookup]_vars

\* The drained list and the positions in it that carry the requested name.
Drained == ListFrom(remote, 1)
Matches == {i \in 1..Len(Drained) : Drained[i].name = spec.name}
FirstMatch == CHOOSE i \in Matches : \A j \in Matches : i <= j
Absent == mem.ok /\ mem.wf = NoWf

(***************************************************************************)
(* C19.  GetWorkflowByName returns the first workflow of the drained list  *)
(* whose name equals the requested name; absent without an error when no   *)
(* workflow has the name; an error, never absent, when listing fails.      *)
(***************************************************************************)
C19_FirstExactMatch ==
    result.pass =>
        IF result.err THEN ~mem.ok /\ ~Absent /\ Len(mem.msg) > 0
        ELSE IF Matches = {} THEN Absent
        ELSE mem.ok /\ mem.wf = Drained[FirstMatch]

\* Two workflows carry the requested name, a workflow under another name
\* is listed before them, and the first of the two is returned.
C19_Witness ==
    /\ result.pass /\ ~result.err
    /\ Cardinality(Matches) = 2
    /\ FirstMatch > 1
    /\ mem.ok /\ mem.wf = Drained[FirstMatch]

(***************************************************************************)
(* Pagination.  ListWorkflows as the loop it is.  Here remote is the       *)
(* engine as GET /api/v1/workflows shows it: for every cursor the page     *)
(* served, [ok, data, nextCursor]; "" is the request without a cursor.     *)
(* ok = FALSE is a request that fails or a body that does not decode.      *)
(* mem holds the locals of the loop, trace the cursors requested.          *)
(***************************************************************************)
MaxRequests == 4
NoCursor == ""
Cursors == {NoCursor, "c1", "c2"}
PageData == {<<>>, <<1>>, <<2>>, <<1, 2>>}
PagedEngines == [Cursors -> [ok : BOOLEAN, data : PageData, nextCursor : Cursors]]

\* One iteration that puts the page in front of what was collected.
ListWorkflowsLoopPrepend(engine, loc) ==
    LET page == engine[loc.cursor]
        all  == page.data \o loc.allWorkflows
    IN  IF ~page.ok THEN [loc EXCEPT !.pc = "failed", !.allWorkflows = <<>>]
        ELSE IF page.nextCursor = NoCursor
        THEN [loc EXCEPT !.pc = "returned", !.allWorkflows = all]
        ELSE [loc EXCEPT !.cursor = page.nextCursor, !.allWorkflows = all]

\* One iteration of the for loop.
ListWorkflowsLoop(engine, loc) ==
    LET page == engine[loc.cursor]
        all  == loc.allWorkflows \o page.data
    IN  IF ~page.ok THEN [loc EXCEPT !.pc = "failed", !.allWorkflows = <<>>]
        ELSE IF page.nextCursor = NoCursor
        THEN [loc EXCEPT !.pc = "returned", !.allWorkflows = all]
        ELSE [loc EXCEPT !.cursor = page.nextCursor, !.allWorkflows = all]

InitList ==
    /\ exists = FALSE
    /\ deleting = FALSE
    /\ finalizer = FALSE
    /\ generation = 0
    /\ spec = NoSpec
    /\ status = EmptyStatus
    /\ target = Unpinned
    /\ remote \in PagedEngines
    /\ nextId = 1
    /\ pre = NoPre
    /\ mem = [cursor |-> NoCursor, allWorkflows |-> <<>>, pc |-> "loop"]
    /\ trace = <<>>
    /\ result = NoResult

ListPage ==
    /\ mem.pc = "loop"
    /\ Len(trace) < MaxRequests
    /\ mem' = ListWorkflowsLoop(remote, mem)
    /\ trace' = Append(trace, mem.cursor)
    /\ result' = [NoResult EXCEPT !.pass = (mem'.pc # "loop"), !.err = (mem'.pc = "failed")]
    /\ UNCHANGED <<exists, deleting, finalizer, generation, spec, status, target,
                   remote, nextId, pre>>

NextList == ListPage

ListSpec == InitList /\ [][NextList]_vars /\ WF_vars(ListPage)

\* The cursors the engine leads through, starting without a cursor, up to
\* the first page that fails or carries no next cursor.
RECURSIVE Walk(_, _)
Walk(c, n) ==
    IF n = 0 THEN <<>>
    ELSE IF ~remote[c].ok \/ remote[c].nextCursor = NoCursor THEN <<c>>
    ELSE <<c>> \o Walk(remote[c].nextCursor, n - 1)

Chain == Walk(NoCursor, MaxRequests)
LastPage == remote[Chain[Len(Chain)]]
ChainEnds == LastPage.ok /\ LastPage.nextCursor = NoCursor
ChainFails == ~LastPage.ok

RECURSIVE PagesInOrder(_)
PagesInOrder(cs) ==
    IF cs = <<>> THEN <<>> ELSE remote[Head(cs)].data \o PagesInOrder(Tail(cs))

(***************************************************************************)
(* C20.  ListWorkflows follows nextCursor from page to page until a page   *)
(* has an empty cursor and returns the pages concatenated in page order;   *)
(* it terminates whenever the engine serves an empty cursor after finitely *)
(* many pages; when a page request fails the call returns an error and no  *)
(* partial list.                                                           *)
(***************************************************************************)
C20_DrainsAllPages ==
    /\ [](mem.pc = "returned" =>
             /\ ChainEnds /\ trace = Chain
             /\ mem.allWorkflows = PagesInOrder(Chain)
             /\ result.pass /\ ~result.err)
    /\ [](mem.pc = "failed" =>
             /\ ChainFails /\ trace = Chain
             /\ mem.allWorkflows = <<>>
             /\ result.pass /\ result.err)
    /\ (ChainEnds => <>(mem.pc = "returned"))
    /\ (ChainFails => <>(mem.pc = "failed"))

\* Three pages were fetched, the first and the last with different
\* workflows, and the call returned them in the order of the pages.
C20_Witness ==
    /\ mem.pc = "returned"
    /\ trace = <<NoCursor, "c1", "c2">> \/ trace = <<NoCursor, "c2", "c1">>
    /\ remote[trace[1]].data = <<1>> /\ remote[trace[3]].data = <<2>>
    /\ mem.allWorkflows = <<1>> \o remote[trace[2]].data \o <<2>>

(***************************************************************************)
(* C21.  The request of every create call and every update call carries no *)
(* activation field, whatever spec.active is; the activation of a workflow *)
(* in the engine is changed by activate and deactivate calls only: a       *)
(* workflow is created inactive, an update keeps the activation, and a     *)
(* workflow whose activation differs after the pass was the subject of a   *)
(* successful activate or deactivate call.                                 *)
(***************************************************************************)
Toggled(id) ==
    \E i \in Idx("activate") \cup Idx("deactivate") : trace[i].ok /\ trace[i].id = id

C21_NoActivationInPayload ==
    result.pass =>
       /\ \A i \in Idx("create") \cup Idx("update") : "active" \notin DOMAIN trace[i].req
       /\ \A i \in Idx("create") : trace[i].ok => ~trace[i].wf.active
       /\ \A i \in Idx("update") :
             trace[i].ok => trace[i].wf.active = Lookup(pre.remote, trace[i].id).active
       /\ \A w \in remote :
             IF w.id \in Ids(pre.remote)
             THEN w.active # Lookup(pre.remote, w.id).active => Toggled(w.id)
             ELSE w.active => Toggled(w.id)

\* Desired active: the create request went out without the activation, the
\* engine created the workflow inactive, and an activate call followed.
C21_Witness ==
    /\ SyncPass /\ pre.spec.active
    /\ Count("create") = 1 /\ The("create").ok
    /\ DOMAIN The("create").req = {"name", "nodes"}
    /\ ~The("create").wf.active
    /\ Count("activate") = 1 /\ The("activate").ok
    /\ Lookup(remote, status.workflowId).active

(***************************************************************************)
(* C22.  status.lastSyncTime and status.observedGeneration are written     *)
(* only by a pass that reaches the end of reconcileWorkflow: a pass that   *)
(* ends in a failure, at the Manual gate, in admission or in deletion      *)
(* leaves both as they were, in the object it holds and in the store.      *)
(***************************************************************************)
\* The pass got through lookup, create/update and activation.
FinalizeReached ==
    /\ ReachedActivation
    /\ \A i \in Idx("activate") \cup Idx("deactivate") : trace[i].ok

C22_SyncStampsOnlyOnSuccess ==
    (result.pass /\ pre.exists /\ ~FinalizeReached)
    => /\ mem.status.lastSyncTime = pre.status.lastSyncTime
       /\ mem.status.observedGeneration = pre.status.observedGeneration
       /\ exists => /\ status.lastSyncTime = pre.status.lastSyncTime
                    /\ status.observedGeneration = pre.status.observedGeneration

\* A pass on a spec edited since the last sync fails after the lookup and
\* writes its condition; the stamps of the last sync stay.
C22_Witness ==
    /\ SyncPass /\ result.err /\ ~FinalizeReached
    /\ pre.status.observedGeneration > 0
    /\ pre.status.observedGeneration < pre.generation
    /\ Count("statusUpdate") = 1 /\ status # pre.status
    /\ status.observedGeneration = pre.status.observedGeneration
    /\ status.lastSyncTime = pre.status.lastSyncTime

C24_UpdateOnlyWhenChanged ==
    (/\ SyncPass /\ pre.synced
     /\ pre.spec.syncPolicy = SyncPolicyAlways
     /\ Count("get") = 1 /\ The("get").ok
     /\ WorkflowCreateRequest(The("get").wf)
           = WorkflowCreateRequest(convertToN8nWorkflow(pre.spec)))
    => Count("update") = 0

(***************************************************************************)
(* C25.  The calls of a pass do not depend on the cached status.active:    *)
(* from any state the resource can be in, and for any outcome of the       *)
(* remote calls, the pass started from that state and the pass started     *)
(* from the state that differs in status.active only issue the same remote *)
(* calls and leave the engine in the same state.                           *)
(***************************************************************************)
CallsFrom(st, fails) ==
    LET out == ReconcileOutcome(st, finalizer, deleting, spec, TargetExplicit, generation,
                                MaxTime, remote, nextId, fails, MsgServerError)
    IN  [calls |-> out.calls, remote |-> out.remote]

C25_CachedActiveIgnored ==
    exists => \A fails \in FailSets :
                 CallsFrom(status, fails) = CallsFrom([status EXCEPT !.active = ~@], fails)

\* The cached status says active, the counterpart is inactive and is to
\* stay so: the pass issues neither call and corrects the status.
C25_Witness ==
    /\ ReachedActivation
    /\ ~pre.spec.active /\ ~Counterpart.active /\ pre.status.active
    /\ Count("activate") = 0 /\ Count("deactivate") = 0
    /\ ~status.active

(***************************************************************************)
(* C26.  Counterpart resolution order, in a pass that reaches              *)
(* reconcileWorkflow under Always or CreateOnly.  With an identifier       *)
(* recorded the first call is get-by-id for it; when that call fails, with *)
(* not-found or with any other error, the next call is find-by-name with   *)
(* the declared name; without an identifier find-by-name is the first      *)
(* call.  A create call is issued only after a find-by-name that succeeded *)
(* and reported absent.  A find-by-name that fails ends the pass: no       *)
(* further remote call, no create, Ready=False.                            *)
(***************************************************************************)
LookupPass ==
    SyncPass /\ pre.spec.syncPolicy \in {SyncPolicyAlways, SyncPolicyCreateOnly}

C26_ResolutionOrder ==
    LookupPass =>
       /\ IF pre.status.workflowId # NoId
          THEN /\ trace[1].op = "get" /\ trace[1].id = pre.status.workflowId
               /\ Count("get") = 1
               /\ IF trace[1].ok
                  THEN Count("list") = 0 /\ Count("create") = 0
                  ELSE Count("list") = 1 /\ trace[2].op = "list"
          ELSE Count("get") = 0 /\ Count("list") = 1 /\ trace[1].op = "list"
       /\ \A i \in Idx("list") :
             /\ trace[i].ok /\ trace[i].wf # NoWf => trace[i].wf.name = pre.spec.name
             /\ trace[i].ok /\ trace[i].wf = NoWf
                   => /\ \A w \in pre.remote : w.name # pre.spec.name
                      /\ Count("create") = 1 /\ trace[i + 1].op = "create"
             /\ trace[i].ok /\ trace[i].wf # NoWf => Count("create") = 0
             /\ ~trace[i].ok
                   => /\ Count("create") = 0
                      /\ \A j \in RemoteIdx : j <= i
                      /\ result.err
                      /\ status.conditions[ConditionTypeReady] =
                            [status |-> "False", reason |-> ReasonAPIError]
       /\ \A i \in Idx("create") : i - 1 \in Idx("list")

\* The recorded identifier is gone from the engine: get-by-id fails with
\* not-found, find-by-name finds a workflow under the declared name, and
\* the pass adopts it without a create call.
C26_Witness ==
    /\ LookupPass /\ ~result.err
    /\ pre.status.workflowId # NoId
    /\ NotFoundReply(trace[1])
    /\ trace[2].op = "list" /\ trace[2].ok /\ trace[2].wf # NoWf
    /\ Count("create") = 0
    /\ status.workflowId = trace[2].wf.id
    /\ status.workflowId # pre.status.workflowId

(***************************************************************************)
(* Deletion of a resource that does not carry the finalizer.  The store    *)
(* keeps a deleted resource for as long as any finalizer is on it; here a  *)
(* resource may be deleted before its admission pass while the finalizer   *)
(* of another controller holds it, and is dropped when that one lets go.   *)
(***************************************************************************)
DeleteHeld ==
    /\ exists /\ ~deleting /\ ~finalizer
    /\ deleting' = TRUE
    /\ Forget
    /\ UNCHANGED <<exists, finalizer, generation, spec, status, target, remote, nextId>>

ReleaseHeld ==
    /\ exists /\ deleting /\ ~finalizer
    /\ Removed
    /\ Forget
    /\ UNCHANGED <<target, remote, nextId>>

NextHeld ==
    \/ Pass
    \/ ReconcileGone
    \/ \E p \in Policies, a \in BOOLEAN, n \in DeclaredNodes : CreateResource(p, a, n)
    \/ DeleteResource
    \/ DeleteHeld
    \/ ReleaseHeld
    \/ \E name \in {WorkflowName, OtherName} : UICreate(name)

HeldSpec == Init /\ [][NextHeld]_vars

(***************************************************************************)
(* C27.  A pass that reaches the deletion check on a resource carrying the *)
(* deletion marker issues no get, list, create, update, activate or        *)
(* deactivate call, never attaches the finalizer, and runs neither the     *)
(* policy gate nor the convergence steps (the object it holds keeps its    *)
(* status).  When the finalizer is absent it issues no remote call, makes  *)
(* no store write and changes nothing.                                     *)
(***************************************************************************)
C27_DeletionSkipsSync ==
    DeletionPass =>
       /\ \A i \in RemoteIdx : trace[i].op = "delete"
       /\ Count("addFinalizer") = 0 /\ Count("statusUpdate") = 0
       /\ ~mem.finalizer
       /\ mem.status = pre.status
       /\ ~pre.finalizer
             => /\ trace = <<>>
                /\ remote = pre.remote
                /\ exists /\ deleting /\ ~finalizer
                /\ status = pre.status /\ spec = pre.spec
                /\ ~result.err /\ ~result.requeue /\ result.requeueAfter = 0

\* A Manual resource deleted before admission, the engine holding a
\* workflow under the declared name: the pass does nothing at all.
C27_Witness ==
    /\ DeletionPass /\ ~pre.finalizer
    /\ pre.spec.syncPolicy = SyncPolicyManual
    /\ \E w \in pre.remote : w.name = pre.spec.name
    /\ trace = <<>> /\ remote = pre.remote
    /\ exists /\ deleting /\ ~finalizer
    /\ status.conditions[ConditionTypeReady] = NoCond

(***************************************************************************)
(* C28.  When the connection target names a Secret and the Secret cannot   *)
(* be read or lacks the requested key, target resolution fails: no client  *)
(* is built, and the process-wide default credential is not used even when *)
(* one is configured.                                                      *)
(***************************************************************************)
C28_NoCredentialFallback ==
    (Resolved /\ SecretUnreadable)
    => /\ ~mem.ok /\ ~result.resolved
       /\ mem.apiKey = ""
       /\ ProcessDefaultKey # "" => mem.apiKey # ProcessDefaultKey

\* The Secret is there but lacks the key asked for, while an address and
\* both process-wide credentials are configured.
C28_Witness ==
    /\ Resolved /\ URLSet
    /\ target.secretRef /\ target.secretExists
    /\ target.secretKey = "token" /\ target.secretKeys = {"api-key"}
    /\ target.defKey # "" /\ target.envKey # ""
    /\ ~mem.ok

(***************************************************************************)
(* C29.  Partial progress on activation failure.  When activate or         *)
(* deactivate fails after a create or update succeeded in the same pass,   *)
(* the failed call is the last remote call of the pass: no delete and no   *)
(* second update undoes what was committed, the counterpart keeps the      *)
(* declared content, the pass reports ActivationError, and the identifier  *)
(* of the counterpart is stored in status.workflowId.  A later pass that   *)
(* finds that identifier in the engine issues no create call, and when it  *)
(* reaches the activation step with the activation still differing it      *)
(* issues the activation call again.                                       *)
(***************************************************************************)
FailedActivation ==
    {i \in Idx("activate") \cup Idx("deactivate") : ~trace[i].ok}
Committed == {i \in Idx("create") \cup Idx("update") : trace[i].ok}

FailedStep ==
    {i \in DOMAIN trace :
        trace[i].op \in {"list", "create", "update", "activate", "deactivate"} /\ ~trace[i].ok}

ReasonOf(op) ==
    IF op = "list" THEN ReasonAPIError
    ELSE IF op \in {"create", "update"} THEN ReasonSyncFailed
    ELSE ReasonActivationError

C30_FailureExits ==
    (LookupPass /\ FailedStep # {})
    => /\ Cardinality(FailedStep) = 1
       /\ \A i \in FailedStep :
             /\ \A j \in RemoteIdx : j <= i
             /\ status.conditions[ConditionTypeReady] =
                   [status |-> "False", reason |-> ReasonOf(trace[i].op)]
             /\ trace[i].op \in {"list", "create", "update"}
                   => Count("activate") = 0 /\ Count("deactivate") = 0
       /\ result.err /\ ~result.requeue
       /\ result.requeueAfter = errorRequeueInterval

\* The update fails while the activation of the counterpart differs from
\* the desired one: no activation call follows.
C30_Witness ==
    /\ LookupPass
    /\ Count("get") = 1
    /\ The("get").ok /\ The("get").wf.active # pre.spec.active
    /\ Count("update") = 1 /\ ~The("update").ok
    /\ Count("activate") = 0 /\ Count("deactivate") = 0
    /\ status.conditions[ConditionTypeReady].reason = ReasonSyncFailed
    /\ result.requeueAfter = errorRequeueInterval

(***************************************************************************)
(* C31.  Self-healing after out-of-band deletion, in a pass that reaches   *)
(* reconcileWorkflow under Always or CreateOnly with an identifier         *)
(* recorded while the engine holds no workflow under that identifier and   *)
(* none under the declared name.  The pass fails only if one of its calls  *)
(* other than get-by-id fails; when it succeeds, its first call is the     *)
(* failed get-by-id, it issues exactly one create call, and                *)
(* status.workflowId is the identifier the create call returned, a new     *)
(* one, under which the engine now holds the workflow.                     *)
(***************************************************************************)
LostCounterpart == LookupPass /\ pre.status.workflowId # NoId /\ NoCounterpart

C31_SelfHealing ==
    LostCounterpart =>
       /\ (\A i \in RemoteIdx : trace[i].op # "get" => trace[i].ok) => ~result.err
       /\ ~result.err =>
             /\ trace[1].op = "get" /\ ~trace[1].ok
             /\ trace[1].id = pre.status.workflowId
             /\ Count("create") = 1
             /\ \A i \in Idx("create") :
                   /\ trace[i].ok
                   /\ trace[i].wf.id \notin Ids(pre.remote)
                   /\ status.workflowId = trace[i].wf.id
             /\ status.workflowId # pre.status.workflowId
             /\ status.workflowId \in Ids(remote)
             /\ Lookup(remote, status.workflowId).name = pre.spec.name

\* The workflow recorded as 1 was deleted in the engine's UI; the pass
\* finds nothing under identifier or name, creates anew and records 2.
C31_Witness ==
    /\ LostCounterpart /\ ~result.err
    /\ pre.status.workflowId = 1 /\ pre.remote = {}
    /\ NotFoundReply(trace[1])
    /\ Count("create") = 1
    /\ status.workflowId = 2
    /\ Ids(remote) = {2}

(***************************************************************************)
(* C32.  Under CreateOnly activation is still converged.  A pass under     *)
(* CreateOnly that finds an existing counterpart whose activation differs  *)
(* from spec.active issues no update call and exactly one activation call, *)
(* the matching one (activate when spec.active, deactivate otherwise), for *)
(* the counterpart; when that call succeeds the counterpart's activation   *)
(* and status.active equal spec.active while its content is untouched.     *)
(***************************************************************************)
CreateOnlyExisting ==
    /\ ReachedActivation
    /\ pre.spec.syncPolicy = SyncPolicyCreateOnly
    /\ Count("create") = 0

ActivationCalls == Idx("activate") \cup Idx("deactivate")

C32_CreateOnlyConvergesActivation ==
    (CreateOnlyExisting /\ Counterpart.active # pre.spec.active)
    => /\ Count("update") = 0
       /\ Cardinality(ActivationCalls) = 1
       /\ \A i \in ActivationCalls :
             /\ trace[i].op = (IF pre.spec.active THEN "activate" ELSE "deactivate")
             /\ trace[i].id = Counterpart.id
             /\ trace[i].ok
                   => /\ Lookup(remote, Counterpart.id).active = pre.spec.active
                      /\ Lookup(remote, Counterpart.id).nodes = Counterpart.nodes
                      /\ status.active = pre.spec.active
                      /\ ~result.err

\* The counterpart recorded by an earlier sync was switched on in the
\* engine's UI and its content changed there; the pass under CreateOnly
\* switches it off again and leaves the content as found.
C32_Witness ==
    /\ CreateOnlyExisting /\ ~result.err
    /\ pre.status.conditions[ConditionTypeSynced].status = "True"
    /\ ~pre.spec.active /\ ~pre.status.active
    /\ Count("get") = 1
    /\ The("get").ok /\ The("get").wf.active
    /\ The("get").wf.nodes # pre.spec.nodes
    /\ Count("deactivate") = 1 /\ Count("update") = 0
    /\ ~Lookup(remote, status.workflowId).active
    /\ Lookup(remote, status.workflowId).nodes # pre.spec.nodes

(***************************************************************************)
(* C33.  Every remote call other than delete (get, list, create, update,   *)
(* activate, deactivate) is issued only in a pass on a resource that at    *)
(* the start of the pass carries the finalizer and no deletion marker.     *)
(* Hence a pass that creates a remote workflow, or records the identifier  *)
(* of one it found, runs on a resource guarded by the finalizer, and a     *)
(* stored resource with a recorded identifier always carries the           *)
(* finalizer.                                                              *)
(***************************************************************************)
SyncCalls == {i \in RemoteIdx : trace[i].op # "delete"}

C33_SyncOnlyUnderFinalizer ==
    /\ (result.pass /\ SyncCalls # {})
          => pre.exists /\ pre.finalizer /\ ~pre.deleting
    /\ (result.pass /\ pre.exists /\ mem.status.workflowId # pre.status.workflowId)
          => pre.finalizer /\ ~pre.deleting
    /\ (exists /\ status.workflowId # NoId) => finalizer

\* A resource with the finalizer and nothing recorded finds a workflow of
\* the declared name that was made in the engine's UI and records it.
C33_Witness ==
    /\ result.pass /\ pre.exists /\ pre.finalizer /\ ~pre.deleting
    /\ pre.status.workflowId = NoId
    /\ Count("list") = 1 /\ Count("create") = 0
    /\ The("list").ok /\ The("list").wf # NoWf
    /\ status.workflowId = The("list").wf.id
    /\ exists /\ finalizer

(***************************************************************************)
(* C34.  Cleanup depends on target resolution.  A pass on a resource that  *)
(* carries the deletion marker in which target resolution fails issues no  *)
(* remote call, so no delete call, and does not remove the finalizer: the  *)
(* resource stays in the store with its finalizer as before, and the pass  *)
(* reports Ready=False with reason APIError instead.  The finalizer is     *)
(* removed only in a pass in which target resolution succeeded.            *)
(***************************************************************************)
C34_CleanupNeedsTarget ==
    /\ (result.pass /\ pre.exists /\ pre.deleting /\ ~result.resolved)
          => /\ RemoteIdx = {}
             /\ Count("removeFinalizer") = 0
             /\ remote = pre.remote
             /\ exists /\ deleting
             /\ finalizer = pre.finalizer
             /\ status.conditions[ConditionTypeReady] =
                   [status |-> "False", reason |-> ReasonAPIError]
             /\ result.err
    /\ (result.pass /\ (Count("removeFinalizer") > 0 \/ (pre.finalizer /\ ~finalizer)))
          => result.resolved /\ pre.deleting

\* The resource is being deleted, holds the finalizer and a recorded
\* identifier whose workflow is still in the engine; the target does not
\* resolve, and the pass leaves finalizer and remote workflow in place.
C34_Witness ==
    /\ result.pass /\ pre.exists /\ pre.deleting /\ pre.finalizer
    /\ ~result.resolved
    /\ pre.status.workflowId \in Ids(pre.remote)
    /\ status.workflowId \in Ids(remote)
    /\ exists /\ finalizer
    /\ Count("delete") = 0

(***************************************************************************)
(* C35.  Cleanup is independent of the sync policy.  A pass under Manual   *)
(* on a resource that carries the deletion marker, the finalizer and a     *)
(* recorded identifier, and whose target resolves, issues exactly one      *)
(* remote call, the delete call for the recorded identifier, and then     *)
(* removes the finalizer, so that the resource leaves the store; and in    *)
(* every such state the pass has the same outcome (calls, engine, status,  *)
(* finalizer, result) whichever of the three policies the resource         *)
(* declares.                                                               *)
(***************************************************************************)
CleanupDue == exists /\ deleting /\ finalizer /\ status.workflowId # NoId

CleanupUnder(p, fails, failMsg) ==
    ReconcileOutcome(status, finalizer, deleting, [spec EXCEPT !.syncPolicy = p],
                     TargetExplicit, generation, MaxTime, remote, nextId, fails, failMsg)

C35_CleanupIgnoresPolicy ==
    /\ (DeletionPass /\ pre.finalizer /\ pre.status.workflowId # NoId
            /\ pre.spec.syncPolicy = SyncPolicyManual)
          => /\ Cardinality(RemoteIdx) = 1 /\ Count("delete") = 1
             /\ \A i \in Idx("delete") :
                   /\ trace[i].id = pre.status.workflowId
                   /\ i = 1
                   /\ trace[i].ok => pre.status.workflowId \notin Ids(remote)
             /\ Count("removeFinalizer") = 1 /\ ~exists
    /\ CleanupDue
          => \A fails \in SUBSET {"delete"}, failMsg \in FailMsgs, p \in Policies :
                CleanupUnder(p, fails, failMsg)
                    = CleanupUnder(SyncPolicyAlways, fails, failMsg)

\* The policy was switched to Manual after the first sync, then the
\* resource was deleted: the pass deletes the remote workflow and the
\* resource leaves the store.
C35_Witness ==
    /\ DeletionPass /\ pre.finalizer
    /\ pre.spec.syncPolicy = SyncPolicyManual
    /\ pre.status.workflowId \in Ids(pre.remote)
    /\ Count("delete") = 1 /\ The("delete").ok
    /\ pre.status.workflowId \notin Ids(remote)
    /\ Count("removeFinalizer") = 1
    /\ ~exists

(***************************************************************************)
(* An engine that holds a workflow of the declared name before the         *)
(* resource is declared.  The engine numbers the workflows it creates      *)
(* from nextId on, so identifier 1 is never the result of a create call of *)
(* a pass; nobody else changes the engine.                                 *)
(***************************************************************************)
InitAdopt ==
    /\ exists = FALSE
    /\ deleting = FALSE
    /\ finalizer = FALSE
    /\ generation = 0
    /\ spec = NoSpec
    /\ status = EmptyStatus
    /\ target = Unpinned
    /\ \E a \in BOOLEAN, n \in DeclaredNodes :
          remote = {[id |-> 1, name |-> WorkflowName, active |-> a, nodes |-> n]}
    /\ nextId = 2
    /\ pre = NoPre
    /\ mem = NoMem
    /\ trace = <<>>
    /\ result = NoResult

NextAdopt ==
    \/ Pass
    \/ ReconcileGone
    \/ \E p \in Policies, a \in BOOLEAN, n \in DeclaredNodes : CreateResource(p, a, n)
    \/ \E p \in Policies, a \in BOOLEAN, n \in DeclaredNodes : EditSpec(p, a, n)
    \/ DeleteResource

AdoptSpec == InitAdopt /\ [][NextAdopt]_vars

\* The workflows the passes have created so far.
EngineMade == 2..(nextId - 1)

(***************************************************************************)
(* C36.  As claimed: the delete call issued during cleanup targets only a  *)
(* remote workflow that a pass created; a workflow that existed beforehand *)
(* and was found by name is never deleted when the resource is removed.    *)
(***************************************************************************)
C36_AdoptedNeverDeleted ==
    result.pass =>
        /\ \A i \in Idx("delete") : trace[i].id \in EngineMade
        /\ (Ids(pre.remote) \ Ids(remote)) \subseteq EngineMade

(***************************************************************************)
(* C36, amended.  The delete call issued during cleanup targets the remote *)
(* workflow under the recorded identifier status.workflowId, whether a     *)
(* pass created that workflow or found it by name: a deletion pass on a    *)
(* resource with the finalizer and a recorded identifier issues exactly    *)
(* one delete call, for that identifier; no pass removes any other         *)
(* workflow from the engine, and a pass on a resource without deletion     *)
(* marker issues no delete call.                                           *)
(***************************************************************************)
C36_RecordedIdDeleted ==
    /\ (DeletionPass /\ pre.finalizer /\ pre.status.workflowId # NoId)
          => /\ Count("delete") = 1
             /\ \A i \in Idx("delete") :
                   /\ trace[i].id = pre.status.workflowId
                   /\ trace[i].ok => pre.status.workflowId \notin Ids(remote)
    /\ result.pass
          => /\ (Ids(pre.remote) \ Ids(remote)) \subseteq {pre.status.workflowId}
             /\ \A i \in Idx("delete") : pre.deleting /\ trace[i].id = pre.status.workflowId

\* The resource recorded the workflow that was in the engine before it,
\* found by name; its deletion pass deletes that workflow.
C36_Witness ==
    /\ DeletionPass /\ pre.finalizer
    /\ pre.status.workflowId = 1
    /\ nextId = 2
    /\ Count("delete") = 1 /\ The("delete").ok /\ The("delete").id = 1
    /\ pre.remote # {} /\ remote = {}
    /\ ~exists

(***************************************************************************)
(* Two declared workflows, "a" and "b", that carry the same workflow name  *)
(* and target the same engine, both admitted (finalizer attached), with    *)
(* nothing recorded and nothing in the engine.  Passes for the two keys    *)
(* run concurrently: a pass is cut at its remote calls, each step being    *)
(* one remote call of reconcileWorkflow with the local code up to the next *)
(* one, and steps of the two passes interleave; passes of one key never    *)
(* overlap.  Here status and spec hold one value per key, and mem holds    *)
(* for each key the position of its pass, the status it has in memory and  *)
(* existingWorkflow.                                                       *)
(***************************************************************************)
RaceKeys == {"a", "b"}
RaceIdle == [pc |-> "idle", st |-> EmptyStatus, existing |-> NoWf]

InitRace ==
    /\ exists = TRUE
    /\ deleting = FALSE
    /\ finalizer = TRUE
    /\ generation = 1
    /\ spec \in [RaceKeys -> {[syncPolicy |-> p, active |-> a, name |-> WorkflowName,
                                nodes |-> NodesHook] :
                                  p \in {SyncPolicyAlways, SyncPolicyCreateOnly},
                                  a \in BOOLEAN}]
    /\ status = [k \in RaceKeys |-> EmptyStatus]
    /\ target = TargetExplicit
    /\ remote = {}
    /\ nextId = 1
    /\ pre = NoPre
    /\ mem = [k \in RaceKeys |-> RaceIdle]
    /\ trace = <<>>
    /\ result = NoResult

\* The pass ends: Status().Update with the outcome's status.
RaceEnd(k, out) ==
    /\ status' = [status EXCEPT ![k] = out.status]
    /\ mem' = [mem EXCEPT ![k] = RaceIdle]

\* A pass starts on a resource with a recorded identifier: GetWorkflow.
RaceGet(k, fails) ==
    LET r == GetWorkflow(remote, status[k].workflowId, fails)
    IN  /\ mem[k].pc = "idle"
        /\ status[k].workflowId # NoId
        /\ mem' = [mem EXCEPT ![k] = [pc |-> IF r.ok THEN "sync" ELSE "find",
                                       st |-> status[k],
                                       existing |-> IF r.ok THEN r.wf ELSE NoWf]]
        /\ UNCHANGED <<exists, deleting, finalizer, generation, spec, status, target,
                       remote, nextId, pre, trace, result>>

\* GetWorkflowByName, at the start of a pass with nothing recorded or after
\* a failed GetWorkflow.
RaceFind(k, fails) ==
    LET st == IF mem[k].pc = "idle" THEN status[k] ELSE mem[k].st
        r == GetWorkflowByName(remote, spec[k].name, fails)
    IN  /\ \/ mem[k].pc = "idle" /\ status[k].workflowId = NoId
           \/ mem[k].pc = "find"
        /\ IF ~r.ok
           THEN RaceEnd(k, searchFailed(st, remote, nextId, <<>>, generation))
           ELSE /\ mem' = [mem EXCEPT ![k] = [pc |-> "sync", st |-> st, existing |-> r.wf]]
                /\ UNCHANGED status
        /\ UNCHANGED <<exists, deleting, finalizer, generation, spec, target,
                       remote, nextId, pre, trace, result>>

\* CreateWorkflow when existingWorkflow is nil; otherwise the identifier is
\* recorded and, unless the policy is CreateOnly, UpdateWorkflow is called.
RaceSync(k, fails) ==
    LET st == mem[k].st
        existing == mem[k].existing
        desired == convertToN8nWorkflow(spec[k])
        st1 == [st EXCEPT !.workflowId = existing.id]
    IN  /\ mem[k].pc = "sync"
        /\ IF existing = NoWf THEN
              LET r == CreateWorkflow(remote, nextId, desired, fails)
              IN  /\ nextId <= MaxId
                  /\ IF ~r.ok
                     THEN /\ RaceEnd(k, syncFailed(st, r.remote, nextId, <<>>, <<>>,
                                                   generation))
                          /\ UNCHANGED <<remote, nextId>>
                     ELSE /\ remote' = r.remote
                          /\ nextId' = nextId + 1
                          /\ mem' = [mem EXCEPT ![k] =
                                        [pc |-> "activate",
                                         st |-> [st EXCEPT !.workflowId = r.wf.id],
                                         existing |-> r.wf]]
                          /\ UNCHANGED status
           ELSE IF EffectivePolicy(spec[k].syncPolicy) = SyncPolicyCreateOnly
                   \/ ~needsUpdate(existing, desired) THEN
              /\ mem' = [mem EXCEPT ![k] = [pc |-> "activate", st |-> st1,
                                            existing |-> existing]]
              /\ UNCHANGED <<status, remote, nextId>>
           ELSE
              LET r == UpdateWorkflow(remote, existing.id, desired, fails)
              IN  IF ~r.ok
                  THEN /\ RaceEnd(k, syncFailed(st1, r.remote, nextId, <<>>, <<>>,
                                                generation))
                       /\ UNCHANGED <<remote, nextId>>
                  ELSE /\ remote' = r.remote
                       /\ mem' = [mem EXCEPT ![k] = [pc |-> "activate", st |-> st1,
                                                     existing |-> r.wf]]
                       /\ UNCHANGED <<status, nextId>>
        /\ UNCHANGED <<exists, deleting, finalizer, generation, spec, target,
                       pre, trace, result>>

\* The activation step and the end of the pass.
RaceActivate(k, fails) ==
    \E out \in {ActivationStep(mem[k].st, spec[k], generation, MaxTime, remote, nextId,
                                <<>>, <<>>, mem[k].existing, fails)} :
        /\ mem[k].pc = "activate"
        /\ remote' = out.remote
        /\ RaceEnd(k, out)
        /\ UNCHANGED <<exists, deleting, finalizer, generation, spec, target,
                       nextId, pre, trace, result>>

NextRace ==
    \E k \in RaceKeys :
        \/ \E fails \in SUBSET {"get"} : RaceGet(k, fails)
        \/ \E fails \in SUBSET {"list"} : RaceFind(k, fails)
        \/ \E fails \in {{}, {"create"}, {"update"}} : RaceSync(k, fails)
        \/ \E fails \in {{}, {"activate"}, {"deactivate"}} : RaceActivate(k, fails)

RaceSpec == InitRace /\ [][NextRace]_vars

(***************************************************************************)
(* C37.  Two declared workflows with the same workflow name and the same   *)
(* engine, reconciled concurrently while the engine holds no workflow of   *)
(* that name: at most one create call goes through in total, so the engine *)
(* never holds two workflows with that name.                               *)
(***************************************************************************)
C37_AtMostOneCreate ==
    /\ nextId <= 2
    /\ Cardinality(Named(remote)) <= 1

(***************************************************************************)
(* C38.  A create call is issued only when the engine holds neither a      *)
(* workflow under the recorded identifier nor a workflow with the declared *)
(* name: a get-by-id that fails for a passing reason (timeout, 5xx) while  *)
(* the counterpart still exists never leads to a second remote workflow    *)
(* for the same declared workflow.                                         *)
(***************************************************************************)
C38_CreateOnlyWhenAbsent ==
    (result.pass /\ Count("create") > 0)
    => /\ NoCounterpart
       /\ \A i \in Idx("create") :
             trace[i].ok => pre.status.workflowId \notin Ids(remote)

(***************************************************************************)
(* C39.  As claimed: whenever Ready is False because the latest pass       *)
(* failed, Synced is not True; a failing pass that follows a successful    *)
(* one does not leave Synced=True on status.                               *)
(***************************************************************************)
FailedPass == result.pass /\ pre.exists /\ exists /\ result.err

====
